---- MODULE Spec2Model ----
(***************************************************************************)
(* The simultaneous-turn battle engine of src/lib/games/arena.ts.          *)
(*                                                                         *)
(* The state is the GameState held by the battle loop, the RoundResult     *)
(* returned by the last applyRound call, and the values the random source  *)
(* gave that call (draws); input is the object the caller passed to that   *)
(* call, as the call left it.  turn is the POST handler of                 *)
(* /api/games/arena/turn serving the round in flight; pc, phase, aborted   *)
(* and requests are the battle loop of the arena page; gen is the          *)
(* generateTerrain call of createInitialState; session is the arena page   *)
(* with the runBattle calls the user has started on it.  One action of     *)
(* the engine is one call of applyRound(state, actionA, actionB); every    *)
(* Math.random() draw of the call is a nondeterministic choice made at     *)
(* the place where the code draws it.  Narration strings are kept as sets  *)
(* of short tags (narr);                                                   *)
(* modelId, modelName and the lastActions display history carry no rule    *)
(* and are left out; the log keeps the round number of each RoundResult.   *)
(***************************************************************************)
EXTENDS Integers, Sequences, FiniteSets, TLC

VARIABLES state, result, draws, input, turn, pc, phase, aborted, requests, gen,
          session

vars ==
  <<state, result, draws, input, turn, pc, phase, aborted, requests, gen, session>>

\* ------------------------------------------------------------ constants

GRID_SIZE == 10
ATTACK_MIN == 15
ATTACK_MAX == 25
SPECIAL_MIN == 10
SPECIAL_MAX == 20
SPECIAL_RANGE == 3
SPECIAL_COOLDOWN == 3
DASH_COOLDOWN == 3
HEAL_AMOUNT == 15
MAX_HEAL_USES == 2
COUNTER_DAMAGE == 8
COMBO_DECAY_THRESHOLD == 3
LAVA_DAMAGE == 10
WALL_KNOCKBACK_DAMAGE == 5
SHRINK_INTERVAL == 10
POWERUP_SPAWN_INTERVAL == 4
MAX_ROUNDS == 25
MAX_SHRINK_LEVEL == 4
MAX_HP == 100
HEAL_PICKUP == 25
DAMAGE_BOOST == 10
UNPREDICTABLE_BONUS == 10
REGEN_AMOUNT == 3

\* CHARGE_MULTIPLIER = 1.5, CRIT_MULTIPLIER = 2 (3 for Berserker),
\* COMBO_DECAY_FACTOR = 0.7, shield/defend 0.5 and Fortified 0.9 are kept as
\* exact fractions: Math.floor(d * 0.7) = (d * 7) \div 10 and
\* Math.floor(d * 0.9) = (d * 9) \div 10 for every d the engine can produce.
CRIT_MULTIPLIER == 2
BERSERKER_CRIT_MULTIPLIER == 3

NULL == "null"

Fid == {"a", "b"}

Other(i) == IF i = "a" THEN "b" ELSE "a"

ActionTypes == {"move", "attack", "defend", "special", "dash", "heal", "charge"}

Directions == {"north", "south", "east", "west"}

\* direction is optional in actionSchema: NoDir is an absent direction.
NoDir == "none"

Passives == {"Speed", "Fortified", "Regeneration", "Evasion", "Berserker",
             "Unpredictable", "None"}

Pos == [x : 0 .. GRID_SIZE - 1, z : 0 .. GRID_SIZE - 1]

P(x, z) == [x |-> x, z |-> z]

\* -------------------------------------------------------------- helpers

Max(a, b) == IF a >= b THEN a ELSE b

Min(a, b) == IF a <= b THEN a ELSE b

Abs(a) == IF a >= 0 THEN a ELSE 0 - a

\* Op(x) with x evaluated once, however often Op reads it.
With(x, Op(_)) == CHOOSE r \in {Op(v) : v \in {x}} : TRUE

distance(a, b) == Abs(a.x - b.x) + Abs(a.z - b.z)

isAdjacent(a, b) == distance(a, b) = 1

isInRange(a, b, range) == distance(a, b) <= range

\* clampToGrid without the clamp.
clampToGridUnclamped(val) == val

clampToGrid(val) == Max(0, Min(GRID_SIZE - 1, val))

RECURSIVE moveInDirection(_, _, _)
moveInDirection(pos, dir, steps) ==
  IF steps = 0 THEN pos
  ELSE LET newPos ==
             CASE dir = "north" -> [pos EXCEPT !.z = clampToGrid(pos.z - 1)]
               [] dir = "south" -> [pos EXCEPT !.z = clampToGrid(pos.z + 1)]
               [] dir = "east"  -> [pos EXCEPT !.x = clampToGrid(pos.x + 1)]
               [] dir = "west"  -> [pos EXCEPT !.x = clampToGrid(pos.x - 1)]
               [] OTHER -> pos
       IN moveInDirection(newPos, dir, steps - 1)

\* terrain[pos.z]?.[pos.x]: the grid is a sequence of rows (index z + 1) of
\* tiles (index x + 1); a position off the grid reads undefined.
Tile(terrain, pos) ==
  IF pos.z + 1 \in DOMAIN terrain /\ pos.x + 1 \in DOMAIN terrain[pos.z + 1]
    THEN terrain[pos.z + 1][pos.x + 1] ELSE "undefined"

isWall(terrain, pos) == Tile(terrain, pos) = "wall"

isLava(terrain, pos) == Tile(terrain, pos) = "lava"

Sign(v) == IF v > 0 THEN 1 ELSE IF v < 0 THEN 0 - 1 ELSE 0

\* hasLineOfSight that no wall ever blocks.
hasLineOfSightAlways(terrain, from, to) == TRUE

\* The x leg of hasLineOfSight: cx steps towards to.x at z = cz.
RECURSIVE losX(_, _, _, _, _)
losX(terrain, cx, cz, to, dx) ==
  IF cx = to.x THEN TRUE
  ELSE LET nx == cx + dx
       IN IF nx = to.x /\ cz = to.z THEN TRUE
          ELSE IF isWall(terrain, P(nx, cz)) THEN FALSE
          ELSE losX(terrain, nx, cz, to, dx)

\* The z leg: cz steps towards to.z at x = to.x.
RECURSIVE losZ(_, _, _, _, _)
losZ(terrain, cx, cz, to, dz) ==
  IF cz = to.z THEN TRUE
  ELSE LET nz == cz + dz
       IN IF cx = to.x /\ nz = to.z THEN TRUE
          ELSE IF isWall(terrain, P(cx, nz)) THEN FALSE
          ELSE losZ(terrain, cx, nz, to, dz)

hasLineOfSight(terrain, from, to) ==
  /\ losX(terrain, from.x, from.z, to, Sign(to.x - from.x))
  /\ losZ(terrain, to.x, from.z, to, Sign(to.z - from.z))

\* getKnockbackDir with east and west exchanged.
getKnockbackDirMirrored(attacker, defender) ==
  LET dx == defender.x - attacker.x
      dz == defender.z - attacker.z
  IN IF Abs(dx) >= Abs(dz)
       THEN (IF dx >= 0 THEN "west" ELSE "east")
       ELSE (IF dz >= 0 THEN "south" ELSE "north")

getKnockbackDir(attacker, defender) ==
  LET dx == defender.x - attacker.x
      dz == defender.z - attacker.z
  IN IF Abs(dx) >= Abs(dz)
       THEN (IF dx >= 0 THEN "east" ELSE "west")
       ELSE (IF dz >= 0 THEN "south" ELSE "north")

\* ---------------------------------------------------- terrain and spawn

\* The safe-zone test of generateTerrain for the zone of fighter a only.
InSpawnSafeZoneLeftOnly(x, z) == x >= 1 /\ x <= 3 /\ z >= 4 /\ z <= 6

InSpawnSafeZone(x, z) ==
  \/ (x >= 1 /\ x <= 3 /\ z >= 4 /\ z <= 6)
  \/ (x >= 6 /\ x <= 8 /\ z >= 4 /\ z <= 6)

\* A grid generateTerrain can return: wallCount = randInt(5, 8) walls and
\* lavaCount = randInt(2, 3) lava tiles on distinct cells outside both spawn
\* safe zones, every other cell empty.
TerrainOf(walls, lava) ==
  [z \in 1 .. GRID_SIZE |-> [x \in 1 .. GRID_SIZE |->
     IF P(x - 1, z - 1) \in walls THEN "wall"
     ELSE IF P(x - 1, z - 1) \in lava THEN "lava" ELSE "empty"]]

IsGeneratedTerrain(walls, lava) ==
  /\ walls \subseteq Pos /\ lava \subseteq Pos
  /\ walls \cap lava = {}
  /\ Cardinality(walls) \in 5 .. 8
  /\ Cardinality(lava) \in 2 .. 3
  /\ \A p \in walls \cup lava : ~InSpawnSafeZone(p.x, p.z)

\* The ring test of shrinkArena for ring i.
OnRing(p, i) ==
  \/ p.x = i \/ p.x = GRID_SIZE - 1 - i
  \/ p.z = i \/ p.z = GRID_SIZE - 1 - i

\* shrinkArena without the test that spares the walls.
shrinkArenaOverWalls(terrain, level) ==
  [z \in 1 .. GRID_SIZE |-> [x \in 1 .. GRID_SIZE |->
     IF \E i \in 0 .. level - 1 : OnRing(P(x - 1, z - 1), i)
       THEN "lava" ELSE terrain[z][x]]]

shrinkArena(terrain, level) ==
  [z \in 1 .. GRID_SIZE |-> [x \in 1 .. GRID_SIZE |->
     IF (\E i \in 0 .. level - 1 : OnRing(P(x - 1, z - 1), i)) /\ terrain[z][x] # "wall"
       THEN "lava" ELSE terrain[z][x]]]

PowerUpTypes == {"heal", "damage", "shield"}

\* The cells of a spawnPowerUp that does not look at the power-ups on the
\* board.
SpawnCellsOverPowerUps(terrain, fighters, existingPowerUps) ==
  {p \in Pos :
     /\ p.x \in 1 .. GRID_SIZE - 2 /\ p.z \in 1 .. GRID_SIZE - 2
     /\ Tile(terrain, p) = "empty"
     /\ \A i \in Fid : fighters[i].position # p}

\* The cells spawnPowerUp can return: x, z = randInt(1, GRID_SIZE - 2), empty
\* terrain, no fighter on it, no power-up on it.
SpawnCells(terrain, fighters, existingPowerUps) ==
  {p \in Pos :
     /\ p.x \in 1 .. GRID_SIZE - 2 /\ p.z \in 1 .. GRID_SIZE - 2
     /\ Tile(terrain, p) = "empty"
     /\ \A i \in Fid : fighters[i].position # p
     /\ \A k \in 1 .. Len(existingPowerUps) : existingPowerUps[k].position # p}

\* ------------------------------------------------------- damage helpers

\* computeAttackDamage rounding down once, after the last step.
computeAttackDamageFloorOnce(baseDmg, attacker, comboMultiplier, critRoll, unpRoll) ==
  LET den == 10 * (IF attacker.chargeActive THEN 2 ELSE 1)
      num == baseDmg * comboMultiplier * (IF attacker.chargeActive THEN 3 ELSE 1)
               + (IF attacker.powerUpEffects.damageBoost THEN DAMAGE_BOOST * den ELSE 0)
      critMult == IF ~critRoll THEN 1
                  ELSE IF attacker.passive = "Berserker"
                    THEN BERSERKER_CRIT_MULTIPLIER ELSE CRIT_MULTIPLIER
  IN [damage |-> (num * critMult) \div den
                   + (IF attacker.passive = "Unpredictable" /\ unpRoll
                        THEN UNPREDICTABLE_BONUS ELSE 0),
      isCrit |-> critRoll]

\* comboMultiplier is in tenths: 7 is COMBO_DECAY_FACTOR = 0.7, 10 is 1.
\* critRoll is Math.random() < CRIT_CHANCE; unpRoll is Math.random() < 0.2,
\* drawn only for the Unpredictable passive.
computeAttackDamage(baseDmg, attacker, comboMultiplier, critRoll, unpRoll) ==
  LET d1 == (baseDmg * comboMultiplier) \div 10
      d2 == IF attacker.chargeActive THEN (d1 * 3) \div 2 ELSE d1
      d3 == IF attacker.powerUpEffects.damageBoost THEN d2 + DAMAGE_BOOST ELSE d2
      critMult == IF attacker.passive = "Berserker"
                    THEN BERSERKER_CRIT_MULTIPLIER ELSE CRIT_MULTIPLIER
      d4 == IF critRoll THEN d3 * critMult ELSE d3
      d5 == IF attacker.passive = "Unpredictable" /\ unpRoll
              THEN d4 + UNPREDICTABLE_BONUS ELSE d4
  IN [damage |-> d5, isCrit |-> critRoll]

\* applyDefenses taking the Fortified 10% off before the two halvings.
applyDefensesFortifiedFirst(damage, defender, dodgeRoll) ==
  IF defender.passive = "Evasion" /\ dodgeRoll
    THEN [finalDamage |-> 0, dodged |-> TRUE]
    ELSE LET d1 == IF defender.passive = "Fortified" THEN (damage * 9) \div 10 ELSE damage
             d2 == IF defender.powerUpEffects.shieldActive THEN d1 \div 2 ELSE d1
             d3 == IF defender.defending THEN d2 \div 2 ELSE d2
         IN [finalDamage |-> d3, dodged |-> FALSE]

\* applyDefenses without the halving of the defending stance.
applyDefensesNoBlock(damage, defender, dodgeRoll) ==
  IF defender.passive = "Evasion" /\ dodgeRoll
    THEN [finalDamage |-> 0, dodged |-> TRUE]
    ELSE LET d1 == IF defender.powerUpEffects.shieldActive THEN damage \div 2 ELSE damage
             d3 == IF defender.passive = "Fortified" THEN (d1 * 9) \div 10 ELSE d1
         IN [finalDamage |-> d3, dodged |-> FALSE]

\* dodgeRoll is Math.random() < 0.15, drawn only for the Evasion passive.
applyDefenses(damage, defender, dodgeRoll) ==
  IF defender.passive = "Evasion" /\ dodgeRoll
    THEN [finalDamage |-> 0, dodged |-> TRUE]
    ELSE LET d1 == IF defender.powerUpEffects.shieldActive THEN damage \div 2 ELSE damage
             d2 == IF defender.defending THEN d1 \div 2 ELSE d1
             d3 == IF defender.passive = "Fortified" THEN (d2 * 9) \div 10 ELSE d2
         IN [finalDamage |-> d3, dodged |-> FALSE]

\* ----------------------------------------------------------- game state

NewFighter(x, z, passive) ==
  [hp |-> MAX_HP, maxHp |-> MAX_HP, position |-> P(x, z), defending |-> FALSE,
   specialCooldown |-> 0, dashCooldown |-> 0, healUses |-> MAX_HEAL_USES,
   chargeActive |-> FALSE, consecutiveCount |-> 0, lastActionType |-> NULL,
   powerUpEffects |-> [damageBoost |-> FALSE, shieldActive |-> FALSE],
   passive |-> passive]

createInitialState(passiveA, passiveB, terrain) ==
  [fighters |-> [a |-> NewFighter(2, 5, passiveA), b |-> NewFighter(7, 5, passiveB)],
   round |-> 1, log |-> <<>>, winner |-> NULL, terrain |-> terrain,
   powerUps |-> <<>>, shrinkLevel |-> 0]

\* --------------------------------------------------------------- moves

\* The loop of resolveMovement: up to n single steps, stopped by the grid
\* edge, a wall, or the opponent's pre-round tile.
RECURSIVE walk(_, _, _, _, _)
walk(pos, dir, terrain, opponentOrigPos, n) ==
  IF n = 0 THEN pos
  ELSE LET next == moveInDirection(pos, dir, 1)
       IN IF next = pos \/ isWall(terrain, next) \/ next = opponentOrigPos
            THEN pos
            ELSE walk(next, dir, terrain, opponentOrigPos, n - 1)

ActionDir(action) == IF action.direction = NoDir THEN "north" ELSE action.direction

MoveSteps(fighter, action) ==
  IF action.type = "move" /\ fighter.passive = "Speed" THEN 2
  ELSE IF action.type = "dash" THEN 2 ELSE 1

\* resolveMovement without the stop in front of the opponent's tile.
resolveMovementThroughOpponent(fighter, action, terrain, opponentOrigPos) ==
  IF action.type # "move" /\ action.type # "dash" THEN fighter.position
  ELSE IF action.type = "dash" /\ fighter.dashCooldown > 0 THEN fighter.position
  ELSE walk(fighter.position, ActionDir(action), terrain, [x |-> 0 - 1, z |-> 0 - 1],
            MoveSteps(fighter, action))

\* resolveMovement without the test of the dash cooldown.
resolveMovementNoCooldown(fighter, action, terrain, opponentOrigPos) ==
  IF action.type # "move" /\ action.type # "dash" THEN fighter.position
  ELSE walk(fighter.position, ActionDir(action), terrain, opponentOrigPos,
            MoveSteps(fighter, action))

resolveMovement(fighter, action, terrain, opponentOrigPos) ==
  IF action.type # "move" /\ action.type # "dash" THEN fighter.position
  ELSE IF action.type = "dash" /\ fighter.dashCooldown > 0 THEN fighter.position
  ELSE walk(fighter.position, ActionDir(action), terrain, opponentOrigPos,
            MoveSteps(fighter, action))

\* findIndex: the first power-up on the fighter's tile, 0 for -1.
PickupIndex(fighter, powerUps) ==
  LET hits == {k \in 1 .. Len(powerUps) : powerUps[k].position = fighter.position}
  IN IF hits = {} THEN 0 ELSE CHOOSE k \in hits : \A j \in hits : k <= j

\* pickupPowerUp with the heal power-up not capped at maxHp.
pickupPowerUpUncapped(fighter, powerUps, idx) ==
  LET pu == powerUps[idx]
  IN CASE pu.type = "heal" -> [fighter EXCEPT !.hp = fighter.hp + HEAL_PICKUP]
       [] pu.type = "damage" ->
            [fighter EXCEPT !.powerUpEffects.damageBoost = TRUE]
       [] pu.type = "shield" ->
            [fighter EXCEPT !.powerUpEffects.shieldActive = TRUE]

\* The fighter after pickupPowerUp took powerUps[idx] (idx > 0).
pickupPowerUp(fighter, powerUps, idx) ==
  LET pu == powerUps[idx]
  IN CASE pu.type = "heal" ->
            [fighter EXCEPT !.hp = Min(fighter.maxHp, fighter.hp + HEAL_PICKUP)]
       [] pu.type = "damage" ->
            [fighter EXCEPT !.powerUpEffects.damageBoost = TRUE]
       [] pu.type = "shield" ->
            [fighter EXCEPT !.powerUpEffects.shieldActive = TRUE]

\* splice(idx, 1)
Splice(seq, idx) == [k \in 1 .. Len(seq) - 1 |-> IF k < idx THEN seq[k] ELSE seq[k + 1]]

\* -------------------------------------------------------------- attacks

NoAttack ==
  [damage |-> 0, narr |-> {}, isCrit |-> FALSE, knockback |-> FALSE,
   counterDamage |-> 0, dodged |-> FALSE]

\* The knockback block of resolveAttack, on the fighters F left by the hit:
\* the pushed defender, and the narration tags and knockback flag added.
Knockback(F, att, def, terrain) ==
  LET kbDir == getKnockbackDir(F[att].position, F[def].position)
      kbPos == moveInDirection(F[def].position, kbDir, 1)
  IN IF kbPos = F[def].position
       THEN [fighters |-> F, knockback |-> FALSE, narr |-> {}]
     ELSE IF isWall(terrain, kbPos)
       THEN [fighters |->
               [F EXCEPT ![def].hp = Max(0, F[def].hp - WALL_KNOCKBACK_DAMAGE)],
             knockback |-> TRUE, narr |-> {"wall"}]
     ELSE IF kbPos = F[att].position
       THEN [fighters |-> F, knockback |-> FALSE, narr |-> {}]
     ELSE IF isLava(terrain, kbPos)
       THEN [fighters |->
               [F EXCEPT ![def].position = kbPos,
                         ![def].hp = Max(0, F[def].hp - LAVA_DAMAGE)],
             knockback |-> TRUE, narr |-> {"knocked", "lava"}]
     ELSE [fighters |-> [F EXCEPT ![def].position = kbPos],
           knockback |-> TRUE, narr |-> {"knocked"}]

\* A hit that was not dodged, on the fighters F1 left by the attacker's
\* consumed flags: damage and shield, then for a melee hit the counter-attack
\* and the knockback.
Landed(F1, att, def, terrain, calc, dfn, melee) ==
  LET F2 == [F1 EXCEPT ![def].hp = Max(0, F1[def].hp - dfn.finalDamage),
                       ![def].powerUpEffects.shieldActive = FALSE]
      tags == {IF melee THEN "attack" ELSE "special"}
                \cup (IF calc.isCrit THEN {"crit"} ELSE {})
                \cup (IF F1[def].defending THEN {"blocked50"} ELSE {})
      counter == IF F1[def].defending THEN COUNTER_DAMAGE ELSE 0
      F3 == IF F1[def].defending
              THEN [F2 EXCEPT ![att].hp = Max(0, F2[att].hp - counter)]
              ELSE F2
  IN IF ~melee
       THEN [fighters |-> F2,
             r |-> [damage |-> dfn.finalDamage, narr |-> tags,
                    isCrit |-> calc.isCrit, knockback |-> FALSE,
                    counterDamage |-> 0, dodged |-> FALSE]]
       ELSE With(Knockback(F3, att, def, terrain), LAMBDA kb :
              [fighters |-> kb.fighters,
               r |-> [damage |-> dfn.finalDamage,
                      narr |-> tags \cup kb.narr
                                 \cup (IF counter > 0 THEN {"counter"} ELSE {}),
                      isCrit |-> calc.isCrit, knockback |-> kb.knockback,
                      counterDamage |-> counter, dodged |-> FALSE]])

\* A hit that passed the range checks: damage, consumed flags, defenses; for
\* a melee hit also counter-attack and knockback.
Strike(F, att, def, terrain, comboMultiplier, rolls, melee) ==
  With(computeAttackDamage(rolls.base, F[att], comboMultiplier,
                           rolls.crit, rolls.unp), LAMBDA calc :
    With([F EXCEPT ![att].chargeActive = FALSE,
                   ![att].powerUpEffects.damageBoost = FALSE], LAMBDA F1 :
      With(applyDefenses(calc.damage, F1[def], rolls.dodge), LAMBDA dfn :
        IF dfn.dodged
          THEN [fighters |-> F1,
                r |-> [damage |-> 0, narr |-> {"dodge"}, isCrit |-> calc.isCrit,
                       knockback |-> FALSE, counterDamage |-> 0, dodged |-> TRUE]]
          ELSE Landed(F1, att, def, terrain, calc, dfn, melee))))

\* Whether resolveAttack draws random numbers for this attacker: the attack
\* or special passes its range, cooldown and line-of-sight checks.
AttackConnects(F, att, action, terrain) ==
  LET def == Other(att)
  IN \/ action.type = "attack" /\ isAdjacent(F[att].position, F[def].position)
     \/ /\ action.type = "special"
        /\ F[att].specialCooldown <= 0
        /\ isInRange(F[att].position, F[def].position, SPECIAL_RANGE)
        /\ hasLineOfSight(terrain, F[att].position, F[def].position)

resolveAttack(F, att, action, terrain, comboMultiplier, rolls) ==
  LET def == Other(att)
  IN IF action.type = "attack"
       THEN IF isAdjacent(F[att].position, F[def].position)
              THEN Strike(F, att, def, terrain, comboMultiplier, rolls, TRUE)
              ELSE [fighters |-> F, r |-> [NoAttack EXCEPT !.narr = {"miss"}]]
     ELSE IF action.type = "special"
       THEN IF F[att].specialCooldown > 0
              THEN [fighters |-> F, r |-> [NoAttack EXCEPT !.narr = {"cooldown"}]]
            ELSE IF ~isInRange(F[att].position, F[def].position, SPECIAL_RANGE)
              THEN [fighters |-> [F EXCEPT ![att].specialCooldown = SPECIAL_COOLDOWN],
                    r |-> [NoAttack EXCEPT !.narr = {"outOfRange"}]]
            ELSE IF ~hasLineOfSight(terrain, F[att].position, F[def].position)
              THEN [fighters |-> [F EXCEPT ![att].specialCooldown = SPECIAL_COOLDOWN],
                    r |-> [NoAttack EXCEPT !.narr = {"wallBlocks"}]]
            ELSE With(Strike(F, att, def, terrain, comboMultiplier, rolls, FALSE),
                      LAMBDA st :
                        [fighters |->
                           [st.fighters EXCEPT ![att].specialCooldown = SPECIAL_COOLDOWN],
                         r |-> st.r])
     ELSE [fighters |-> F, r |-> NoAttack]

\* ------------------------------------------------------------ applyRound

\* Phase 0 counting the cooldowns down without the test for a running one.
PreRoundUnguarded(f) ==
  [f EXCEPT !.defending = FALSE,
            !.specialCooldown = f.specialCooldown - 1,
            !.dashCooldown = f.dashCooldown - 1,
            !.hp = IF f.passive = "Regeneration" /\ f.hp < f.maxHp
                     THEN Min(f.maxHp, f.hp + REGEN_AMOUNT) ELSE f.hp]

\* Phase 0 for one fighter: clear defending, count the cooldowns down,
\* Regeneration.
PreRound(f) ==
  [f EXCEPT !.defending = FALSE,
            !.specialCooldown = IF f.specialCooldown > 0 THEN f.specialCooldown - 1
                                ELSE f.specialCooldown,
            !.dashCooldown = IF f.dashCooldown > 0 THEN f.dashCooldown - 1
                             ELSE f.dashCooldown,
            !.hp = IF f.passive = "Regeneration" /\ f.hp < f.maxHp
                     THEN Min(f.maxHp, f.hp + REGEN_AMOUNT) ELSE f.hp]

\* getComboMultiplier counting runs of attacks and specials only.
ComboTrackAttacksOnly(f, action) ==
  IF f.lastActionType = action.type /\ action.type \in {"attack", "special"}
    THEN [f EXCEPT !.consecutiveCount = f.consecutiveCount + 1]
    ELSE [f EXCEPT !.consecutiveCount = 1, !.lastActionType = action.type]

\* getComboMultiplier: the fighter with its run counter updated.
ComboTrack(f, action) ==
  IF f.lastActionType = action.type
    THEN [f EXCEPT !.consecutiveCount = f.consecutiveCount + 1]
    ELSE [f EXCEPT !.consecutiveCount = 1, !.lastActionType = action.type]

\* getComboMultiplier: the value returned, in tenths, for the updated fighter.
getComboMultiplier(f) ==
  IF f.consecutiveCount >= COMBO_DECAY_THRESHOLD THEN 7 ELSE 10

\* Phase 1 with a heal that does not look at healUses.
StanceHealUnchecked(f, action) ==
  CASE action.type = "defend" -> [f |-> [f EXCEPT !.defending = TRUE], narr |-> {"defend"}]
    [] action.type = "charge" -> [f |-> [f EXCEPT !.chargeActive = TRUE], narr |-> {"charge"}]
    [] action.type = "heal" ->
         LET healAmt == Min(HEAL_AMOUNT, f.maxHp - f.hp)
         IN [f |-> [f EXCEPT !.healUses = f.healUses - 1, !.hp = f.hp + healAmt],
             narr |-> {"heal"}]
    [] OTHER -> [f |-> f, narr |-> {}]

\* Phase 1 for one fighter: defend, charge, heal.
Stance(f, action) ==
  CASE action.type = "defend" -> [f |-> [f EXCEPT !.defending = TRUE], narr |-> {"defend"}]
    [] action.type = "charge" -> [f |-> [f EXCEPT !.chargeActive = TRUE], narr |-> {"charge"}]
    [] action.type = "heal" ->
         IF f.healUses <= 0
           THEN [f |-> f, narr |-> {"healFail"}]
           ELSE LET healAmt == Min(HEAL_AMOUNT, f.maxHp - f.hp)
                IN [f |-> [f EXCEPT !.healUses = f.healUses - 1, !.hp = f.hp + healAmt],
                    narr |-> {"heal"}]
    [] OTHER -> [f |-> f, narr |-> {}]

\* isMoving for a round in which nobody has moved yet when the attacks are
\* resolved.
isMovingNever(action) == FALSE

isMoving(action) == action.type = "move" \/ action.type = "dash"

isAttack(action) == action.type = "attack" \/ action.type = "special"

\* The collision test with the rule switched off.
CollisionNever(destA, destB, actionA, actionB) == FALSE

\* "Collision: both move to same tile".
Collision(destA, destB, actionA, actionB) ==
  destA = destB /\ isMoving(actionA) /\ isMoving(actionB)

\* The fighter that arrives at dest: position, dash cooldown, power-up
\* pickup (idx is its index, 0 for none), lava.
Arrive(f0, action, dest, powerUps, terrain) ==
  With([f0 EXCEPT !.position = dest,
                  !.dashCooldown = IF action.type = "dash" /\ f0.dashCooldown <= 0
                                     THEN DASH_COOLDOWN ELSE f0.dashCooldown],
       LAMBDA f1 :
    With(PickupIndex(f1, powerUps), LAMBDA idx :
      With(IF idx # 0 THEN pickupPowerUp(f1, powerUps, idx) ELSE f1, LAMBDA f2 :
        With(isLava(terrain, f2.position), LAMBDA onLava :
          [f |-> IF onLava THEN [f2 EXCEPT !.hp = Max(0, f2.hp - LAVA_DAMAGE)]
                 ELSE f2,
           idx |-> idx, onLava |-> onLava]))))

\* "Apply movement for A/B" on the state s.
ApplyMovement(s, i, action, dest, origPos) ==
  With(Arrive(s.fighters[i], action, dest, s.powerUps, s.terrain), LAMBDA m :
    [s |-> [s EXCEPT !.fighters[i] = m.f,
                     !.powerUps = IF m.idx # 0 THEN Splice(s.powerUps, m.idx)
                                  ELSE s.powerUps],
     narr |-> IF m.f.position = origPos THEN {"pathBlocked"}
              ELSE {"moves"} \cup (IF m.idx # 0 THEN {"pickup"} ELSE {})
                             \cup (IF m.onLava THEN {"steppedLava"} ELSE {})])

\* Phases 0 and 1 for one fighter: the fighter, the narration of its stance,
\* its combo multiplier.
Prepare(f, action) ==
  With(ComboTrack(PreRound(f), action), LAMBDA c :
    With(Stance(c, action), LAMBDA st :
      [f |-> st.f, narr |-> st.narr, combo |-> getComboMultiplier(c)]))

\* Phase 2 on the state s1 left by phases 0 and 1 (pa, pb are what Prepare
\* returned): the working copy before the attacks.
Movement(s1, pa, pb, actionA, actionB) ==
  LET origPosA == s1.fighters["a"].position
      origPosB == s1.fighters["b"].position
      destA == IF isMoving(actionA)
                 THEN resolveMovement(s1.fighters["a"], actionA, s1.terrain, origPosB)
                 ELSE origPosA
      destB == IF isMoving(actionB)
                 THEN resolveMovement(s1.fighters["b"], actionB, s1.terrain, origPosA)
                 ELSE origPosB
      Work(s2, narrA, narrB, dA, dB) ==
        [s |-> s2, narrA |-> narrA, narrB |-> narrB,
         comboA |-> pa.combo, comboB |-> pb.combo,
         destA |-> dA, destB |-> dB, rA |-> NoAttack, rB |-> NoAttack]
  IN With(destA, LAMBDA dA : With(destB, LAMBDA dB :
       IF Collision(dA, dB, actionA, actionB)
         THEN Work(s1, {"collide"}, {"collide"}, dA, dB)
         ELSE With(IF isMoving(actionA)
                     THEN ApplyMovement(s1, "a", actionA, dA, origPosA)
                     ELSE [s |-> s1, narr |-> pa.narr], LAMBDA mA :
                With(IF isMoving(actionB)
                       THEN ApplyMovement(mA.s, "b", actionB, dB, origPosB)
                       ELSE [s |-> mA.s, narr |-> pb.narr], LAMBDA mB :
                  Work(mB.s, mA.narr, mB.narr, dA, dB)))))

\* Phases 0 to 2 of applyRound: the working copy before the attacks.
PreAttack(s, actionA, actionB) ==
  With(Prepare(s.fighters["a"], actionA), LAMBDA pa :
    With(Prepare(s.fighters["b"], actionB), LAMBDA pb :
      With([s EXCEPT !.fighters = [a |-> pa.f, b |-> pb.f]], LAMBDA s1 :
        Movement(s1, pa, pb, actionA, actionB))))

\* Phase 3 for one attacker on the working copy w; rolls are the draws of
\* this resolveAttack call.
AttackPhase(w, att, action, rolls) ==
  IF ~isAttack(action) THEN w
  ELSE With(resolveAttack(w.s.fighters, att, action, w.s.terrain,
                          IF att = "a" THEN w.comboA ELSE w.comboB, rolls),
            LAMBDA out :
              IF att = "a"
                THEN [w EXCEPT !.s.fighters = out.fighters,
                               !.narrA = out.r.narr, !.rA = out.r]
                ELSE [w EXCEPT !.s.fighters = out.fighters,
                               !.narrB = out.r.narr, !.rB = out.r])

WinnerCheck(F, winner) ==
  IF F["a"].hp <= 0 /\ F["b"].hp <= 0 THEN "draw"
  ELSE IF F["b"].hp <= 0 THEN "a"
  ELSE IF F["a"].hp <= 0 THEN "b"
  ELSE winner

\* The shrink block burning a fighter on lava at the end of every round.
ShrinkBurnEveryRound(s) ==
  LET newShrinkLevel == s.round \div SHRINK_INTERVAL
      event == newShrinkLevel > s.shrinkLevel /\ newShrinkLevel <= MAX_SHRINK_LEVEL
  IN With(IF event THEN shrinkArena(s.terrain, newShrinkLevel) ELSE s.terrain,
          LAMBDA terrain :
            LET Burn(f) == IF isLava(terrain, f.position)
                             THEN [f EXCEPT !.hp = Max(0, f.hp - LAVA_DAMAGE)]
                             ELSE f
            IN [s EXCEPT !.shrinkLevel = IF event THEN newShrinkLevel ELSE s.shrinkLevel,
                         !.terrain = terrain,
                         !.fighters = [a |-> Burn(s.fighters["a"]),
                                       b |-> Burn(s.fighters["b"])]])

\* The shrink block: level, terrain and the lava damage of the shrink event.
Shrink(s) ==
  LET newShrinkLevel == s.round \div SHRINK_INTERVAL
  IN IF newShrinkLevel > s.shrinkLevel /\ newShrinkLevel <= MAX_SHRINK_LEVEL
       THEN With(shrinkArena(s.terrain, newShrinkLevel), LAMBDA terrain :
              LET Burn(f) == IF isLava(terrain, f.position)
                               THEN [f EXCEPT !.hp = Max(0, f.hp - LAVA_DAMAGE)]
                               ELSE f
              IN [s EXCEPT !.shrinkLevel = newShrinkLevel,
                           !.terrain = terrain,
                           !.fighters = [a |-> Burn(s.fighters["a"]),
                                         b |-> Burn(s.fighters["b"])]])
       ELSE s

\* null from spawnPowerUp (no power-up has type NULL).
NoSpawn == [position |-> P(0, 0), type |-> NULL]

\* The safety valve declaring every battle at the round limit a draw.
MaxRoundsCheckAlwaysDraw(s) ==
  IF s.round > MAX_ROUNDS /\ s.winner = NULL
    THEN [s EXCEPT !.winner = "draw"]
    ELSE s

MaxRoundsCheck(s) ==
  IF s.round > MAX_ROUNDS /\ s.winner = NULL
    THEN [s EXCEPT !.winner =
            IF s.fighters["a"].hp = s.fighters["b"].hp THEN "draw"
            ELSE IF s.fighters["a"].hp > s.fighters["b"].hp THEN "a" ELSE "b"]
    ELSE s

\* Phase 5 up to the spawn draw: log, winner check, round++, shrink.
EndOfRound(w) ==
  With([w.s EXCEPT !.log = Append(w.s.log, w.s.round),
                   !.winner = WinnerCheck(w.s.fighters, w.s.winner),
                   !.round = w.s.round + 1], LAMBDA s1 : Shrink(s1))

\* The spawn block and the max-rounds safety valve; spawn is what
\* spawnPowerUp returned (NoSpawn for null or for a round without a spawn).
Finish(s, spawn) ==
  With(IF spawn.type # NULL
         THEN [s EXCEPT !.powerUps = Append(s.powerUps, spawn)] ELSE s,
       LAMBDA s1 : MaxRoundsCheck(s1))

\* A GameState object: which object it is, and its value.
Obj(ref, val) == [ref |-> ref, val |-> val]

\* const s = state: the working object is the caller's object.
JsonCloneSameObject(obj) == obj

\* JSON.parse(JSON.stringify(state)): an object graph of its own.  Every
\* field of a GameState is a finite number, a string, a boolean, null, or an
\* array or plain object of these, so the value read back is the value
\* written.
JsonClone(obj) == Obj("s", obj.val)

\* The value of the caller's object arg after applyRound made its writes,
\* which left final, on the working object work.
AfterWrites(arg, work, final) == IF work.ref = arg.ref THEN final ELSE arg.val

TurnResult(action, r, narr) ==
  [action |-> action, damage |-> r.damage, narr |-> narr, isCrit |-> r.isCrit,
   knockback |-> r.knockback, counterDamage |-> r.counterDamage, dodged |-> r.dodged]

RoundResult(round, w, actionA, actionB) ==
  [round |-> round, resultA |-> TurnResult(actionA, w.rA, w.narrA),
   resultB |-> TurnResult(actionB, w.rB, w.narrB)]

\* applyRound with every random draw given: rollsA and rollsB are the draws
\* of the two resolveAttack calls, spawn is the outcome of spawnPowerUp.
applyRound(s, actionA, actionB, rollsA, rollsB, spawn) ==
  With(PreAttack(s, actionA, actionB), LAMBDA w0 :
    With(AttackPhase(w0, "a", actionA, rollsA), LAMBDA w1 :
      With(AttackPhase(w1, "b", actionB, rollsB), LAMBDA w2 :
        [state |-> Finish(EndOfRound(w2), spawn),
         result |-> RoundResult(s.round, w2, actionA, actionB)])))

\* ------------------------------------------------- inputs and random draws

NoRolls == [base |-> 0, crit |-> FALSE, unp |-> FALSE, dodge |-> FALSE]

\* randInt(ATTACK_MIN, ATTACK_MAX) and randInt(SPECIAL_MIN, SPECIAL_MAX):
\* the two ends of each range.
BaseDraws(type) ==
  IF type = "attack" THEN {ATTACK_MIN, ATTACK_MAX} ELSE {SPECIAL_MIN, SPECIAL_MAX}

\* The draws of one resolveAttack call on fighters F: none unless the attack
\* connects; the Unpredictable and Evasion rolls only for those passives.
RollSet(F, att, action, terrain) ==
  IF AttackConnects(F, att, action, terrain)
    THEN [base : BaseDraws(action.type), crit : BOOLEAN,
          unp : IF F[att].passive = "Unpredictable" THEN BOOLEAN ELSE {FALSE},
          dodge : IF F[Other(att)].passive = "Evasion" THEN BOOLEAN ELSE {FALSE}]
    ELSE {NoRolls}

\* The cells the spawn draw is taken from (a sample of the 8 x 8 interior).
SpawnDraws == {P(3, 5), P(6, 4)}

\* What spawnPowerUp can return for the state s left by EndOfRound, the cell
\* drawn from cells: nothing in a round without a spawn; otherwise a free
\* cell with any type, or null when all 30 attempts can hit a rejected cell.
SpawnSet(s, cells) ==
  IF s.round % POWERUP_SPAWN_INTERVAL # 0 THEN {NoSpawn}
  ELSE LET free == SpawnCells(s.terrain, s.fighters, s.powerUps)
       IN [position : free \cap cells, type : PowerUpTypes]
            \cup (IF Cardinality(free) < (GRID_SIZE - 2) * (GRID_SIZE - 2)
                    THEN {NoSpawn} ELSE {})

Action(type, direction) == [type |-> type, direction |-> direction]

\* The decisions a model can return: a type, and a direction for move and dash
\* (an absent direction, which the engine reads as north, for move).
Actions ==
  {Action(t, NoDir) : t \in ActionTypes \ {"dash"}}
    \cup {Action(t, d) : t \in {"move", "dash"}, d \in Directions}

\* applyRound resolving the attack of b before the attack of a.
StepWithBFirst(actionA, actionB, cells) ==
  \E s \in {JsonClone(Obj("state", state))} :
  \E w0 \in {PreAttack(s.val, actionA, actionB)} :
    \E rollsB \in RollSet(w0.s.fighters, "b", actionB, w0.s.terrain) :
      \E w1 \in {AttackPhase(w0, "b", actionB, rollsB)} :
        \E rollsA \in RollSet(w1.s.fighters, "a", actionA, w1.s.terrain) :
          \E w2 \in {AttackPhase(w1, "a", actionA, rollsA)} :
            \E e \in {EndOfRound(w2)} :
              \E spawn \in SpawnSet(e, cells) :
                /\ state' = Finish(e, spawn)
                /\ result' = RoundResult(state.round, w2, actionA, actionB)
                /\ draws' = [a |-> rollsA, b |-> rollsB, spawn |-> spawn]
                /\ input' = AfterWrites(Obj("state", state), s, Finish(e, spawn))

\* One applyRound call on the current state with the decisions actionA and
\* actionB, the spawn cell drawn from cells, in the order of the code: phases
\* 0 to 2, the attack of a with its draws, the attack of b with its draws,
\* the end of the round with the spawn draw.
StepWith(actionA, actionB, cells) ==
  \E s \in {JsonClone(Obj("state", state))} :
  \E w0 \in {PreAttack(s.val, actionA, actionB)} :
    \E rollsA \in RollSet(w0.s.fighters, "a", actionA, w0.s.terrain) :
      \E w1 \in {AttackPhase(w0, "a", actionA, rollsA)} :
        \E rollsB \in RollSet(w1.s.fighters, "b", actionB, w1.s.terrain) :
          \E w2 \in {AttackPhase(w1, "b", actionB, rollsB)} :
            \E e \in {EndOfRound(w2)} :
              \E spawn \in SpawnSet(e, cells) :
                /\ state' = Finish(e, spawn)
                /\ result' = RoundResult(state.round, w2, actionA, actionB)
                /\ draws' = [a |-> rollsA, b |-> rollsB, spawn |-> spawn]
                /\ input' = AfterWrites(Obj("state", state), s, Finish(e, spawn))

Step(actionA, actionB) == StepWith(actionA, actionB, SpawnDraws)

\* --------------------------------------------------------- specification

\* Two grids generateTerrain can return (walls, lava): one with the middle
\* of row 5 open, one with a wall on it.
WallsOpen == {P(0, 5), P(4, 8), P(0, 3), P(9, 0), P(5, 1), P(4, 2)}

LavaOpen == {P(5, 7), P(4, 3), P(2, 3)}

WallsA == {P(5, 5), P(4, 8), P(0, 3), P(9, 0), P(5, 1), P(4, 2)}

LavaA == {P(5, 7), P(4, 3)}

NoDraws == [a |-> NoRolls, b |-> NoRolls, spawn |-> NoSpawn]

NoResult == [round |-> 0, resultA |-> TurnResult(Action(NULL, NoDir), NoAttack, {}),
             resultB |-> TurnResult(Action(NULL, NoDir), NoAttack, {})]

\* The prompt of fighter i for the state s: what buildPrompt renders of it
\* (the round, the fighter's own status, what it sees of the opponent, the
\* terrain within 2 tiles that is not empty, the power-ups, the shrink level,
\* the rounds of the last three log entries).
buildPrompt(s, i) ==
  LET me == s.fighters[i]
      them == s.fighters[Other(i)]
  IN [fighter |-> i, round |-> s.round, me |-> me,
      them |-> [hp |-> them.hp, position |-> them.position,
                passive |-> them.passive, defending |-> them.defending],
      nearbyTerrain |->
        {<<p, Tile(s.terrain, p)>> : p \in
           {q \in Pos : /\ Abs(q.x - me.position.x) <= 2
                        /\ Abs(q.z - me.position.z) <= 2
                        /\ q # me.position
                        /\ Tile(s.terrain, q) # "empty"}},
      powerUps |-> s.powerUps, shrinkLevel |-> s.shrinkLevel,
      recentLog |-> {k \in 1 .. Len(s.log) : k > Len(s.log) - 3}]

NoPrompt == [fighter |-> NULL]

NoAction == Action(NULL, NoDir)

\* No request is being served.
NoTurn ==
  [pc |-> "idle", promptA |-> NoPrompt, promptB |-> NoPrompt,
   responseA |-> "pending", responseB |-> "pending",
   actionA |-> NoAction, actionB |-> NoAction, status |-> 0]

\* The variables of the page and of the handler.
page == <<turn, pc, phase, aborted, requests>>

\* startBattle has set phase to fighting and called runBattle, which is at
\* the test of its loop; nothing has been posted.
LoopStart ==
  /\ input = state
  /\ turn = NoTurn
  /\ pc = "test"
  /\ phase = "fighting"
  /\ aborted = FALSE
  /\ requests = 0

\* No generateTerrain call is running.
GenIdle == [pc |-> "idle"]

\* The page as it is mounted, no runBattle call started.
NoSession == [pc |-> "idle"]

PassivePairs == {<<"None", "None">>, <<"Speed", "Evasion">>, <<"Berserker", "Regeneration">>}

\* The number of rounds of a new battle that are explored.
MaxRound == 2

\* A new battle: createInitialState for a pair of models.
Init ==
  /\ \E pp \in PassivePairs :
       state = createInitialState(pp[1], pp[2], TerrainOf(WallsOpen, LavaOpen))
  /\ result = NoResult
  /\ draws = NoDraws
  /\ LoopStart
  /\ gen = GenIdle
  /\ session = NoSession

\* One turn of the loop of runBattle, for the first MaxRound rounds: while
\* there is no winner, the state is posted to /api/games/arena/turn, which
\* applies applyRound with the two decisions.
Round ==
  /\ state.winner = NULL
  /\ state.round <= MaxRound
  /\ \E actionA \in Actions, actionB \in Actions : Step(actionA, actionB)
  /\ UNCHANGED <<page, gen, session>>

Next == Round

Spec == Init /\ [][Next]_vars

\* ------------------------------------------- a round of a battle in progress

\* Fighter states of a battle in progress (hp, specialCooldown, dashCooldown,
\* healUses, chargeActive, consecutiveCount, lastActionType, damageBoost,
\* shieldActive, passive, defending), each one the engine can leave behind.
Profile(hp, sc, dc, hu, ch, cc, la, db, sh, pa, de) ==
  [hp |-> hp, maxHp |-> MAX_HP, position |-> P(0, 0), defending |-> de,
   specialCooldown |-> sc,
   dashCooldown |-> dc, healUses |-> hu, chargeActive |-> ch,
   consecutiveCount |-> cc, lastActionType |-> la,
   powerUpEffects |-> [damageBoost |-> db, shieldActive |-> sh], passive |-> pa]

Profiles ==
  << Profile(100, 0, 0, 2, FALSE, 1, "move", FALSE, FALSE, "None", FALSE),
     Profile(22, 2, 1, 1, TRUE, 2, "attack", TRUE, FALSE, "Berserker", FALSE),
     Profile(8, 0, 3, 0, FALSE, 1, "dash", FALSE, TRUE, "Evasion", FALSE),
     Profile(0, 0, 2, 0, FALSE, 1, "move", FALSE, FALSE, "None", FALSE),
     Profile(91, 0, 1, 0, FALSE, 3, "heal", FALSE, TRUE, "Fortified", FALSE),
     Profile(97, 1, 0, 2, FALSE, 2, "defend", FALSE, FALSE, "Regeneration", TRUE),
     Profile(60, 3, 0, 1, TRUE, 1, "special", FALSE, TRUE, "Speed", FALSE),
     Profile(45, 0, 0, 2, FALSE, 2, "dash", TRUE, FALSE, "Unpredictable", FALSE) >>

\* How many of the Profiles each fighter is drawn from.
NumProfiles == 6

\* Where the fighters stand, the round, and the power-ups on the board.
Placement(ax, az, bx, bz, rounds, pus) ==
  [a |-> P(ax, az), b |-> P(bx, bz), rounds |-> rounds, powerUps |-> pus]

PU(x, z, type) == [position |-> P(x, z), type |-> type]

Placements ==
  << Placement(6, 5, 7, 5, {7},
               <<PU(6, 4, "heal"), PU(6, 6, "damage"), PU(7, 4, "shield")>>),
     Placement(3, 5, 4, 5, {9}, <<>>),
     Placement(4, 5, 4, 4, {9}, <<>>),
     Placement(8, 5, 9, 5, {19}, <<>>),
     Placement(6, 6, 8, 6, {9}, <<PU(7, 6, "heal")>>),
     Placement(4, 5, 6, 5, {25}, <<>>),
     Placement(0, 0, 1, 0, {9}, <<>>),
     Placement(2, 5, 4, 5, {3}, <<>>),
     Placement(3, 6, 7, 6, {3}, <<>>),
     Placement(2, 5, 7, 5, {25}, <<>>),
     Placement(5, 9, 5, 8, {19}, <<>>) >>

\* How many of the Placements are explored.
NumPlacements == 9

\* The GameState of a battle in progress at the start of round `round`: the
\* arena shrunk as the rounds before it left it, one RoundResult logged per
\* round played, the winner as the winner check of the last round left it.
MidBattle(pl, round, fa, fb) ==
  LET level == Min(MAX_SHRINK_LEVEL, round \div SHRINK_INTERVAL)
      base == TerrainOf(WallsA, LavaA)
      F == [a |-> [fa EXCEPT !.position = pl.a], b |-> [fb EXCEPT !.position = pl.b]]
  IN [fighters |-> F, round |-> round, log |-> [k \in 1 .. round - 1 |-> k],
      winner |-> WinnerCheck(F, NULL),
      terrain |-> IF level > 0 THEN shrinkArena(base, level) ELSE base,
      powerUps |-> IF round > POWERUP_SPAWN_INTERVAL THEN pl.powerUps ELSE <<>>,
      shrinkLevel |-> level]

\* The posted state: a battle in progress, each fighter with one of the first
\* NumProfiles profiles, in one of the first NumPlacements placements, or a
\* battle about to start.
InitStep ==
  /\ \/ \E k \in 1 .. NumPlacements, i \in 1 .. NumProfiles, j \in 1 .. NumProfiles :
          \E round \in Placements[k].rounds :
            state = MidBattle(Placements[k], round, Profiles[i], Profiles[j])
     \/ \E pp \in PassivePairs :
          state = createInitialState(pp[1], pp[2], TerrainOf(WallsA, LavaA))
  /\ result = NoResult
  /\ draws = NoDraws
  /\ LoopStart
  /\ gen = GenIdle
  /\ session = NoSession

\* The decisions with a direction given wherever one is read.
DirectedActions == {a \in Actions : a.type = "move" => a.direction # NoDir}

\* POST /api/games/arena/turn: one applyRound call on the posted state,
\* whatever that state is.
ApplyOnce ==
  /\ result = NoResult
  /\ \E actionA \in DirectedActions, actionB \in DirectedActions :
       Step(actionA, actionB)
  /\ UNCHANGED <<page, gen, session>>

SpecStep == InitStep /\ [][ApplyOnce]_vars

\* ------------------------------------------------------------------ claims

\* C1: in every state, both fighters have 0 <= hp <= maxHp = 100.
C1_HpBounds ==
  \A i \in Fid :
    /\ state.fighters[i].maxHp = MAX_HP
    /\ state.fighters[i].hp \in 0 .. state.fighters[i].maxHp

\* A hit of at least 15 on a fighter left the fighter at hp 0 (the clamp at 0),
\* in a round in which the attacker picked nothing up.
C1_Witness ==
  /\ result.round # 0
  /\ result.resultA.action.type = "attack"
  /\ result.resultA.damage >= ATTACK_MIN
  /\ state.fighters["b"].hp = 0
  /\ state.fighters["a"].hp > 0

\* C2: in every state, both fighters stand on the grid.
C2_PositionBounds ==
  \A i \in Fid : state.fighters[i].position \in Pos

\* A fighter in the corner (0, 0) moved north, off the grid, and stayed.
C2_Witness ==
  /\ result.resultA.action = Action("move", "north")
  /\ result.resultA.narr = {"pathBlocked"}
  /\ state.fighters["a"].position = P(0, 0)

\* C3: winner goes from null to one of a, b, draw, and once it is non-null
\* no further applyRound call, whatever the actions, changes its value.
C3_WinnerSetOnce ==
  [][/\ state'.winner \in {NULL, "a", "b", "draw"}
     /\ state.winner # NULL => state'.winner = state.winner]_vars

\* The hp lost by fighter i in the step.
HpLoss(i) == state.fighters[i].hp - state'.fighters[i].hp

\* A fighter whose attack is a plain one: no passive, no charge, no damage
\* boost, no shield, not defending.
Plain(f) ==
  /\ f.passive = "None"
  /\ ~f.chargeActive
  /\ ~f.powerUpEffects.damageBoost
  /\ ~f.powerUpEffects.shieldActive

\* C4: when both fighters are adjacent as the attack phase begins and both
\* choose attack, with no crit, no dodge, no defence of any kind, no charge,
\* no damage boost and no combo decay, both fighters lose between 15 and 25 hp
\* in that round.
C4_BasicTrade ==
  [][(/\ result'.resultA.action.type = "attack"
      /\ result'.resultB.action.type = "attack"
      /\ isAdjacent(state.fighters["a"].position, state.fighters["b"].position)
      /\ \A i \in Fid :
           /\ Plain(state.fighters[i])
           /\ state'.fighters[i].consecutiveCount < COMBO_DECAY_THRESHOLD
      /\ "crit" \notin result'.resultA.narr \cup result'.resultB.narr
      /\ "dodge" \notin result'.resultA.narr \cup result'.resultB.narr)
     => \A i \in Fid : HpLoss(i) \in ATTACK_MIN .. ATTACK_MAX]_vars

\* The action fighter i took in the round reported by r.
ActionOf(r, i) == IF i = "a" THEN r.resultA.action ELSE r.resultB.action

\* The destination of fighter i for the action, resolved on its own against
\* the opponent's pre-round position.
Destination(s, i, action) ==
  resolveMovement(PreRound(s.fighters[i]), action, s.terrain,
                  s.fighters[Other(i)].position)

\* C5: if both fighters move or dash and their destinations, each resolved
\* against the other's pre-round position, are the same tile, both fighters
\* stand after the round where they stood before it.
C5_CollisionSymmetry ==
  [][(/\ \A i \in Fid : isMoving(ActionOf(result', i))
      /\ Destination(state, "a", ActionOf(result', "a"))
           = Destination(state, "b", ActionOf(result', "b")))
     => \A i \in Fid : state'.fighters[i].position = state.fighters[i].position]_vars

\* Two fighters one tile apart walked towards the free tile between them and
\* both stayed.
C5_Witness ==
  /\ result.resultA.action = Action("move", "east")
  /\ result.resultB.action = Action("move", "west")
  /\ result.resultA.narr = {"collide"}
  /\ state.fighters["a"].position = P(6, 6)
  /\ state.fighters["b"].position = P(8, 6)

\* The rule of one cooldown over a step: old and new value, the fixed
\* cooldown, and whether the fighter took the action of that cooldown.
CooldownStep(old, new, fixed, used) ==
  /\ new >= 0
  /\ new = fixed => used /\ old <= 1
  /\ new # fixed => old - new \in {0, 1}

\* C6: over every applyRound call, for each fighter, specialCooldown and
\* dashCooldown are never negative, and each one either goes down by at most 1
\* or is set to exactly 3, the latter only when the fighter took that action
\* (special, dash) with the cooldown expired.
C6_Cooldowns ==
  [][\A i \in Fid :
       /\ CooldownStep(state.fighters[i].specialCooldown,
                       state'.fighters[i].specialCooldown, SPECIAL_COOLDOWN,
                       ActionOf(result', i).type = "special")
       /\ CooldownStep(state.fighters[i].dashCooldown,
                       state'.fighters[i].dashCooldown, DASH_COOLDOWN,
                       ActionOf(result', i).type = "dash")]_vars

\* A fighter dashed and moved, its dash cooldown is 3; the other fired a
\* special, its special cooldown is 3.
C6_Witness ==
  /\ result.resultA.action.type = "dash"
  /\ "moves" \in result.resultA.narr
  /\ state.fighters["a"].dashCooldown = DASH_COOLDOWN
  /\ result.resultB.action.type = "special"
  /\ state.fighters["b"].specialCooldown = SPECIAL_COOLDOWN

\* A round in which nothing but phase 0 and the fighter's own action touches
\* the hp of fighter i: the opponent does not attack and the arena does not
\* shrink.
QuietFor(i) ==
  /\ ~isAttack(ActionOf(result', Other(i)))
  /\ state'.shrinkLevel = state.shrinkLevel

\* C7: healUses is 2 in the initial state, never increases, never goes below
\* 0; a heal with no use left leaves healUses and hp as they are, and a heal
\* with a use left takes exactly one use and raises hp by
\* min(15, maxHp - hp), hp being the value the heal finds (after phase 0).
C7_HealUses ==
  /\ [](state.round = 1 => \A i \in Fid : state.fighters[i].healUses = MAX_HEAL_USES)
  /\ [][\A i \in Fid :
          LET f == state.fighters[i]
              g == state'.fighters[i]
              hp == PreRound(f).hp
          IN /\ g.healUses <= f.healUses
             /\ g.healUses >= 0
             /\ ActionOf(result', i).type = "heal" /\ f.healUses = 0
                  => /\ g.healUses = 0
                     /\ QuietFor(i) => g.hp = hp
             /\ ActionOf(result', i).type = "heal" /\ f.healUses > 0
                  => /\ g.healUses = f.healUses - 1
                     /\ QuietFor(i) => g.hp = hp + Min(HEAL_AMOUNT, f.maxHp - hp)]_vars

\* A wounded fighter healed with its last use and gained the full 15.
C7_Witness ==
  /\ result.resultA.action.type = "heal"
  /\ result.resultA.narr = {"heal"}
  /\ state.fighters["a"].healUses = 0
  /\ state.fighters["a"].hp = 22 + HEAL_AMOUNT

\* ------------------------------------------------------- the long battle

\* The decisions of the long battle: each fighter defends or walks towards
\* its own edge of the arena, where the shrinking ring reaches it.
LongActionsA == {Action("defend", NoDir), Action("move", "west")}

LongActionsB == {Action("defend", NoDir), Action("move", "east")}

\* The spawn draw of the long battle: no cell is accepted.
LongSpawnDraws == {}

\* runBattle: rounds are played while there is no winner and the round is
\* within MAX_ROUNDS.
RunBattle ==
  /\ state.winner = NULL
  /\ state.round <= MAX_ROUNDS
  /\ \E actionA \in LongActionsA, actionB \in LongActionsB :
       StepWith(actionA, actionB, LongSpawnDraws)
  /\ UNCHANGED <<page, gen, session>>

\* The long battle is fought by two fighters without a passive.
InitLong ==
  /\ state = createInitialState("None", "None", TerrainOf(WallsOpen, LavaOpen))
  /\ result = NoResult
  /\ draws = NoDraws
  /\ LoopStart
  /\ gen = GenIdle
  /\ session = NoSession

SpecLong == InitLong /\ [][RunBattle]_vars

\* C8: when the round counter passes MAX_ROUNDS at the end of a round and the
\* winner check has set no winner, the winner is draw for equal hp and the
\* fighter with the higher hp otherwise; and a battle in which both fighters
\* defended in every round ends as a draw.
C8_RoundLimit ==
  /\ [](/\ state.round > MAX_ROUNDS
        /\ \A i \in Fid : /\ state.fighters[i].lastActionType = "defend"
                          /\ state.fighters[i].consecutiveCount = MAX_ROUNDS
        => state.winner = "draw")
  /\ [][(/\ state.winner = NULL
         /\ state'.round > MAX_ROUNDS
         /\ \A i \in Fid : state'.fighters[i].hp > 0)
        => state'.winner =
             IF state'.fighters["a"].hp = state'.fighters["b"].hp THEN "draw"
             ELSE IF state'.fighters["a"].hp > state'.fighters["b"].hp THEN "a"
             ELSE "b"]_vars

\* The battle reached the round limit with both fighters alive and fighter b
\* behind by the lava it stood in: a wins on hp.
C8_Witness ==
  /\ state.round = MAX_ROUNDS + 1
  /\ Len(state.log) = MAX_ROUNDS
  /\ state.fighters["b"].hp > 0
  /\ state.fighters["a"].hp > state.fighters["b"].hp
  /\ state.winner = "a"

\* The result of the turn of fighter i in the round reported by r.
TurnOf(r, i) == IF i = "a" THEN r.resultA ELSE r.resultB

\* The draws of the attack of fighter i in the step.
RollsOf(d, i) == IF i = "a" THEN d.a ELSE d.b

\* The damage of the attack of y in the step before any defence of x, from
\* the draws of the step, and that damage behind the shield of x.
RawDamage(y) ==
  LET w == PreAttack(state, ActionOf(result', "a"), ActionOf(result', "b"))
      rolls == RollsOf(draws', y)
  IN computeAttackDamage(rolls.base, w.s.fighters[y],
                         IF y = "a" THEN w.comboA ELSE w.comboB,
                         rolls.crit, rolls.unp).damage

BehindShield(x, y) ==
  IF state.fighters[x].powerUpEffects.shieldActive
    THEN RawDamage(y) \div 2 ELSE RawDamage(y)

\* x defends, the adjacent y attacks, and the hit is not dodged.
BlockedHit(x, y) ==
  /\ ActionOf(result', x).type = "defend"
  /\ ActionOf(result', y).type = "attack"
  /\ isAdjacent(state.fighters[x].position, state.fighters[y].position)
  /\ ~TurnOf(result', y).dodged

\* x defends and y fires a special, or attacks and is dodged or out of range.
NoCounterCase(x, y) ==
  /\ ActionOf(result', x).type = "defend"
  /\ \/ ActionOf(result', y).type = "special"
     \/ /\ ActionOf(result', y).type = "attack"
        /\ \/ TurnOf(result', y).dodged
           \/ ~isAdjacent(state.fighters[x].position, state.fighters[y].position)

\* The counter on y: the result reports counter damage n, and, in a round
\* without a shrink, y ends n below its hp after phase 0 (capped at 0).
Countered(y, n) ==
  /\ TurnOf(result', y).counterDamage = n
  /\ state'.shrinkLevel = state.shrinkLevel
       => state'.fighters[y].hp = Max(0, PreRound(state.fighters[y]).hp - n)

\* C9 as stated: on a blocked hit the damage applied to x is floor(d / 2), d
\* being the damage an undefended x would have taken from the same draws, and
\* y loses exactly COUNTER_DAMAGE (capped at 0); there is no counter for a
\* special, a dodged attack or an attack out of range.
C9_AsStated ==
  [][\A x \in Fid :
       LET y == Other(x)
           d == IF state.fighters[x].passive = "Fortified"
                  THEN (BehindShield(x, y) * 9) \div 10 ELSE BehindShield(x, y)
       IN /\ BlockedHit(x, y)
               => /\ TurnOf(result', y).damage = d \div 2
                  /\ Countered(y, COUNTER_DAMAGE)
          /\ NoCounterCase(x, y) => Countered(y, 0)]_vars

\* C9: on a blocked hit the damage applied to x is the damage behind the
\* shield halved (floor) and then, for a Fortified x, reduced by 10% (floor);
\* y takes exactly COUNTER_DAMAGE from the counter (capped at 0); there is no
\* counter for a special, a dodged attack or an attack out of range.
C9_DefendCounter ==
  [][\A x \in Fid :
       LET y == Other(x)
           half == BehindShield(x, y) \div 2
       IN /\ BlockedHit(x, y)
               => /\ TurnOf(result', y).damage =
                       IF state.fighters[x].passive = "Fortified"
                         THEN (half * 9) \div 10 ELSE half
                  /\ Countered(y, COUNTER_DAMAGE)
          /\ NoCounterCase(x, y) => Countered(y, 0)]_vars

\* A Fortified fighter behind a shield blocked a hit of 15: 7 behind the
\* shield, 3 after the block, 2 after the 10%; the attacker was countered.
C9_Witness ==
  /\ state.fighters["a"].passive = "Fortified"
  /\ result.resultA.action.type = "defend"
  /\ result.resultB.action.type = "attack"
  /\ draws.b.base = ATTACK_MIN
  /\ result.resultB.damage = 2
  /\ result.resultB.counterDamage = COUNTER_DAMAGE

\* The tile n steps from pos in the direction, on an unbounded plane.
Ahead(pos, dir, n) ==
  CASE dir = "north" -> [x |-> pos.x, z |-> pos.z - n]
    [] dir = "south" -> [x |-> pos.x, z |-> pos.z + n]
    [] dir = "east" -> [x |-> pos.x + n, z |-> pos.z]
    [] dir = "west" -> [x |-> pos.x - n, z |-> pos.z]

\* Both tiles of a dash of fighter i are on the grid, not walls and not the
\* opponent's tile.
FreePath(i, dir) ==
  \A n \in 1 .. 2 :
    LET t == Ahead(state.fighters[i].position, dir, n)
    IN /\ t \in Pos
       /\ ~isWall(state.terrain, t)
       /\ t # state.fighters[Other(i)].position

\* Fighter i is neither pushed by a hit nor held by a collision in the step.
Undisturbed(i) ==
  /\ "knocked" \notin TurnOf(result', Other(i)).narr
  /\ "collide" \notin TurnOf(result', i).narr

Mid == PreAttack(state, ActionOf(result', "a"), ActionOf(result', "b")).s

\* Where the attacker y stands when its attack is resolved: a attacks first,
\* from its tile after movement; b attacks from where a's attack left it.
AttackerPos(mid, y) ==
  IF y = "a" THEN mid.fighters["a"].position ELSE state'.fighters["b"].position

Between(v, lo, hi) == (lo <= v /\ v <= hi) \/ (hi <= v /\ v <= lo)

\* The tiles of the stepping path of a special: along x on the row of from,
\* then along z on the column of to, both ends left out.
PathTiles(from, to) ==
  {p \in Pos :
     /\ p # from /\ p # to
     /\ \/ p.z = from.z /\ Between(p.x, from.x, to.x)
        \/ p.x = to.x /\ Between(p.z, from.z, to.z)}

WallOnPath(terrain, from, to) ==
  \E p \in PathTiles(from, to) : Tile(terrain, p) = "wall"

\* C11: when a fighter fires a special with its cooldown run out at an
\* opponent within 3 tiles and a wall stands on the path along x and then
\* along z between them, the special deals no damage, the opponent keeps the
\* hp and the shield flag it had as the attack phase began, and the cooldown
\* of the special is 3 after the round.
C11_SpecialBlockedByWall ==
  [][\A y \in Fid :
       ActionOf(result', y).type = "special" /\ state.fighters[y].specialCooldown <= 1
         => \A mid \in {Mid} :
              \A from \in {AttackerPos(mid, y)}, to \in {mid.fighters[Other(y)].position} :
                distance(from, to) <= SPECIAL_RANGE /\ WallOnPath(state.terrain, from, to)
                  => /\ TurnOf(result', y).damage = 0
                     /\ state'.fighters[Other(y)].powerUpEffects.shieldActive
                          = mid.fighters[Other(y)].powerUpEffects.shieldActive
                     /\ state'.shrinkLevel = state.shrinkLevel
                          => state'.fighters[Other(y)].hp = mid.fighters[Other(y)].hp
                     /\ state'.fighters[y].specialCooldown = SPECIAL_COOLDOWN]_vars

\* A special fired across the wall on (5, 5) at a shielded opponent two tiles
\* away: blocked, shield kept, cooldown 3.
C11_Witness ==
  /\ result.resultA.action.type = "special"
  /\ result.resultA.narr = {"wallBlocks"}
  /\ result.resultA.damage = 0
  /\ state.fighters["a"].position = P(4, 5)
  /\ state.fighters["b"].position = P(6, 5)
  /\ state.fighters["b"].powerUpEffects.shieldActive
  /\ state.fighters["a"].specialCooldown = SPECIAL_COOLDOWN

Offense(base, run, charged, boosted, passive, crit, unp) ==
  LET d1 == IF run >= 3 THEN (base * 7) \div 10 ELSE base
      d2 == IF charged THEN (d1 * 3) \div 2 ELSE d1
      d3 == IF boosted THEN d2 + 10 ELSE d2
      d4 == IF crit THEN d3 * (IF passive = "Berserker" THEN 3 ELSE 2) ELSE d3
  IN IF passive = "Unpredictable" /\ unp THEN d4 + 10 ELSE d4

\* The attack or special of y landed on x and was not dodged.
Lands(y) ==
  /\ isAttack(ActionOf(result', y))
  /\ TurnOf(result', y).narr \cap {"attack", "special"} # {}

\* x has no defence as the attack phase begins: no shield held or picked up
\* this round, no defending stance, not Fortified.
Open(x) ==
  /\ ~state.fighters[x].powerUpEffects.shieldActive
  /\ "pickup" \notin TurnOf(result', x).narr
  /\ ActionOf(result', x).type # "defend"
  /\ state.fighters[x].passive # "Fortified"

BattleActionsA == {Action("move", "north"), Action("move", "south")}

BattleActionsB == {Action("defend", NoDir)}

\* What a generateText call with Output.object({ schema: actionSchema }) can
\* come to: an Action of the schema (ok), an output that does not parse as
\* one, for which the call or the read of .output throws (malformed), or a
\* failed call (error).
Outcomes(menu) ==
  {[response |-> "ok", action |-> a] : a \in menu}
    \cup {[response |-> r, action |-> NoAction] : r \in {"malformed", "error"}}

Rejected(response) == response \in {"malformed", "error"}

\* The handler going on as soon as one of the two calls is fulfilled.
FulfilledEither(responseA, responseB) == responseA = "ok" \/ responseB = "ok"

\* await Promise.all([..]) returns: both calls are fulfilled.
Fulfilled(responseA, responseB) == responseA = "ok" /\ responseB = "ok"

\* The test of the loop without the test of the winner.
LoopTestRoundOnly(s, signalAborted) == s.round <= MAX_ROUNDS /\ ~signalAborted

\* The test of the loop of runBattle.
LoopTest(s, signalAborted) ==
  s.winner = NULL /\ s.round <= MAX_ROUNDS /\ ~signalAborted

\* The loop passes its test and posts the state; the handler builds both
\* prompts from the posted state and starts both generateText calls.
Fetch ==
  /\ pc = "test"
  /\ LoopTest(state, aborted)
  /\ pc' = "fetch"
  /\ requests' = requests + 1
  /\ turn' = [NoTurn EXCEPT !.pc = "awaiting",
                            !.promptA = buildPrompt(state, "a"),
                            !.promptB = buildPrompt(state, "b")]
  /\ UNCHANGED <<gen, session, state, result, draws, input, phase, aborted>>

\* The generateText call for fighter a settles.
DecideA ==
  /\ turn.pc = "awaiting"
  /\ turn.responseA = "pending"
  /\ \E o \in Outcomes(BattleActionsA) :
       turn' = [turn EXCEPT !.responseA = o.response, !.actionA = o.action]
  /\ UNCHANGED <<gen, session, state, result, draws, input, pc, phase, aborted, requests>>

\* The generateText call for fighter b settles.
DecideB ==
  /\ turn.pc = "awaiting"
  /\ turn.responseB = "pending"
  /\ \E o \in Outcomes(BattleActionsB) :
       turn' = [turn EXCEPT !.responseB = o.response, !.actionB = o.action]
  /\ UNCHANGED <<gen, session, state, result, draws, input, pc, phase, aborted, requests>>

\* Both calls are fulfilled: applyRound on the posted state with the two
\* decisions, and the response { state, result }.
Respond200 ==
  /\ turn.pc = "awaiting"
  /\ Fulfilled(turn.responseA, turn.responseB)
  /\ StepWith(turn.actionA, turn.actionB, LongSpawnDraws)
  /\ turn' = [turn EXCEPT !.pc = "responded", !.status = 200]
  /\ UNCHANGED <<gen, session, pc, phase, aborted, requests>>

\* Promise.all rejects as soon as one call does: the catch block answers
\* { error } with status 500.
Respond500 ==
  /\ turn.pc = "awaiting"
  /\ Rejected(turn.responseA) \/ Rejected(turn.responseB)
  /\ turn' = [turn EXCEPT !.pc = "responded", !.status = 500]
  /\ UNCHANGED <<gen, session, state, result, draws, input, pc, phase, aborted, requests>>

\* res.ok: the loop takes the new state and goes back to its test.
Receive200 ==
  /\ pc = "fetch" /\ ~aborted
  /\ turn.pc = "responded" /\ turn.status = 200
  /\ pc' = "test"
  /\ turn' = NoTurn
  /\ UNCHANGED <<gen, session, state, result, draws, input, phase, aborted, requests>>

\* !res.ok: break, and setPhase("complete") after the loop.
Receive500 ==
  /\ pc = "fetch" /\ ~aborted
  /\ turn.pc = "responded" /\ turn.status = 500
  /\ pc' = "done"
  /\ phase' = "complete"
  /\ turn' = NoTurn
  /\ UNCHANGED <<gen, session, state, result, draws, input, aborted, requests>>

\* fetch throws (the signal was aborted, or the network failed): break, and
\* setPhase("complete") after the loop.
FetchThrows ==
  /\ pc = "fetch"
  /\ pc' = "done"
  /\ phase' = "complete"
  /\ turn' = NoTurn
  /\ UNCHANGED <<gen, session, state, result, draws, input, aborted, requests>>

\* The loop fails its test: setPhase("complete").
LoopExit ==
  /\ pc = "test"
  /\ ~LoopTest(state, aborted)
  /\ pc' = "done"
  /\ phase' = "complete"
  /\ UNCHANGED <<gen, session, state, result, draws, input, turn, aborted, requests>>

\* The Back / Play Again button.
reset ==
  /\ phase # "selecting"
  /\ aborted' = TRUE
  /\ phase' = "selecting"
  /\ UNCHANGED <<gen, session, state, result, draws, input, turn, pc, requests>>

NextBattle ==
  \/ Fetch \/ DecideA \/ DecideB \/ Respond200 \/ Respond500
  \/ Receive200 \/ Receive500 \/ FetchThrows \/ LoopExit \/ reset

\* A battle on the page, from startBattle on.  Every call made is answered
\* or fails, and every continuation that is ready runs.
SpecBattle ==
  /\ InitLong
  /\ [][NextBattle]_vars
  /\ WF_vars(Fetch) /\ WF_vars(DecideA) /\ WF_vars(DecideB)
  /\ WF_vars(Respond200) /\ WF_vars(Respond500)
  /\ WF_vars(Receive200) /\ WF_vars(Receive500)
  /\ WF_vars(FetchThrows) /\ WF_vars(LoopExit)

\* applyRound was called in the step: the log has one more RoundResult.
Applied == Len(state'.log) = Len(state.log) + 1

\* The handler answers in the step.
Answers == turn.pc = "awaiting" /\ turn'.pc = "responded"

\* C14: applyRound is called only when both decision requests have been
\* fulfilled, with the two decisions they returned, each made on a prompt
\* built from the state before the round, both prompts built before either
\* request was answered; when a request fails the handler answers 500, and
\* neither applyRound is called nor any state or result changed.
C14_BothDecisionsFirst ==
  [][/\ Applied
          => /\ turn.responseA = "ok" /\ turn.responseB = "ok"
             /\ result'.resultA.action = turn.actionA
             /\ result'.resultB.action = turn.actionB
             /\ \A i \in Fid :
                  LET prompt == IF i = "a" THEN turn.promptA ELSE turn.promptB
                  IN /\ prompt.round = state.round
                     /\ prompt.me = state.fighters[i]
                     /\ prompt.them.hp = state.fighters[Other(i)].hp
                     /\ prompt.them.position = state.fighters[Other(i)].position
             /\ turn'.status = 200
     /\ turn.pc = "idle" /\ turn'.pc = "awaiting"
          => /\ turn'.responseA = "pending" /\ turn'.responseB = "pending"
             /\ turn'.actionA = NoAction /\ turn'.actionB = NoAction
     /\ turn.pc = "awaiting" /\ turn'.pc = "awaiting"
          => turn'.promptA = turn.promptA /\ turn'.promptB = turn.promptB
     /\ Answers /\ (turn.responseA = "error" \/ turn.responseB = "error")
          => /\ turn'.status = 500
             /\ ~Applied
             /\ state' = state /\ result' = result /\ input' = input]_vars

\* In round 3 the request for fighter a was fulfilled and the one for
\* fighter b failed: the answer is 500 and the state is the one posted.
C14_Witness ==
  /\ turn.pc = "responded" /\ turn.status = 500
  /\ turn.responseA = "ok" /\ turn.actionA.type = "move"
  /\ turn.responseB = "error"
  /\ requests = 3
  /\ state.round = 3 /\ Len(state.log) = 2
  /\ turn.promptA.round = 3

\* C15: when a decision comes back malformed (and no request failed), the
\* handler puts a default Action in its place and answers with the round
\* applied, both Actions the engine got being Actions of the schema.
C15_DefaultOnMalformed ==
  [][(/\ Answers
      /\ turn.responseA = "malformed" \/ turn.responseB = "malformed"
      /\ turn.responseA # "error" /\ turn.responseB # "error")
     => /\ turn'.status = 200
        /\ Applied
        /\ \A i \in Fid : ActionOf(result', i).type \in ActionTypes]_vars

\* C16: the winner is set once 25 rounds have been applied, each applyRound
\* call adding one to the round; the loop posts at most 25 rounds, each one
\* for a state without a winner, at a round within MAX_ROUNDS, not aborted;
\* and the loop ends with phase complete, whatever the requests come to.
C16_BattleTerminates ==
  /\ [](Len(state.log) >= MAX_ROUNDS => state.winner # NULL)
  /\ [](requests <= MAX_ROUNDS)
  /\ [][/\ Applied => state'.round = state.round + 1
        /\ requests' # requests
             => /\ requests' = requests + 1
                /\ state.winner = NULL
                /\ state.round <= MAX_ROUNDS
                /\ ~aborted]_vars
  /\ <>(pc = "done" /\ phase = "complete")

\* The loop ended after 25 posted rounds, the winner set by the round limit.
C16_Witness ==
  /\ pc = "done" /\ phase = "complete"
  /\ ~aborted
  /\ requests = MAX_ROUNDS
  /\ Len(state.log) = MAX_ROUNDS
  /\ state.round = MAX_ROUNDS + 1
  /\ state.winner = "b"

\* The loop ended before the round limit, fighter a dead in the lava.
C16_EarlyWin ==
  /\ pc = "done" /\ phase = "complete"
  /\ ~aborted
  /\ state.round <= MAX_ROUNDS
  /\ state.fighters["a"].hp = 0
  /\ state.winner = "b"
  /\ requests = Len(state.log)

\* C17: a fighter that chose attack or special has neither its charge nor
\* its damage boost after the round, whether the attack landed, was dodged,
\* was out of range, blocked by a wall or on cooldown.
C17_FlagsConsumed ==
  [][\A i \in Fid :
       isAttack(ActionOf(result', i))
         => /\ ~state'.fighters[i].chargeActive
            /\ ~state'.fighters[i].powerUpEffects.damageBoost]_vars

\* The offensive damage of the attack of y in the step, from its draws.
OffenseOf(y) ==
  Offense(RollsOf(draws', y).base, state'.fighters[y].consecutiveCount,
          state.fighters[y].chargeActive,
          state.fighters[y].powerUpEffects.damageBoost, state.fighters[y].passive,
          RollsOf(draws', y).crit, RollsOf(draws', y).unp)

\* The attack or special of y reached x: it landed or was dodged.
Reaches(y) ==
  /\ isAttack(ActionOf(result', y))
  /\ TurnOf(result', y).narr \cap {"attack", "special", "dodge"} # {}

\* The damage d behind the defences: halved behind a shield, halved again
\* when defending, then multiplied by 0.9 for Fortified, each rounded down.
Defended(d, shielded, defending, passive) ==
  LET d1 == IF shielded THEN d \div 2 ELSE d
      d2 == IF defending THEN d1 \div 2 ELSE d1
  IN IF passive = "Fortified" THEN (d2 * 9) \div 10 ELSE d2

\* C18: an attack that reaches an Evasion defender whose dodge roll succeeds
\* deals 0, is reported dodged, and leaves the defender's shield flag and hp
\* as the attack phase found them; any other attack that
\* reaches the defender deals its damage halved behind a shield, halved again
\* when defending, then reduced by 10% for Fortified, each step rounded down,
\* and clears the shield flag (a special takes exactly that damage off the
\* hp, down to 0); the shield flag changes in the attack phase in no other
\* case.  The hp is compared in rounds without a shrink.
C18_DefenseSteps ==
  [][\A mid \in {Mid} : \A y \in Fid :
       LET x == Other(y)
           before == mid.fighters[x]
           after == state'.fighters[x]
           turnY == TurnOf(result', y)
           noShrink == state'.shrinkLevel = state.shrinkLevel
           quiet == noShrink /\ ActionOf(result', y).type = "special"
       IN /\ Reaches(y) /\ before.passive = "Evasion" /\ RollsOf(draws', y).dodge
               => /\ turnY.damage = 0 /\ turnY.dodged
                  /\ after.powerUpEffects.shieldActive
                       = before.powerUpEffects.shieldActive
                  /\ noShrink => after.hp = before.hp
          /\ Reaches(y) /\ ~(before.passive = "Evasion" /\ RollsOf(draws', y).dodge)
               => /\ turnY.damage =
                       Defended(OffenseOf(y), before.powerUpEffects.shieldActive,
                                ActionOf(result', x).type = "defend", before.passive)
                  /\ ~turnY.dodged
                  /\ ~after.powerUpEffects.shieldActive
                  /\ quiet => after.hp = Max(0, before.hp - turnY.damage)
          /\ ~Reaches(y)
               => after.powerUpEffects.shieldActive
                    = before.powerUpEffects.shieldActive]_vars

\* A Fortified fighter with a shield, defending, is hit by a charged attack
\* of base 25 with a damage boost and a Berserker crit: 105, then 52, 26, 23.
C18_Witness ==
  /\ result.resultA.action.type = "defend"
  /\ input.fighters["a"].passive = "Fortified"
  /\ input.fighters["a"].powerUpEffects.shieldActive
  /\ ~state.fighters["a"].powerUpEffects.shieldActive
  /\ result.resultB.action.type = "attack"
  /\ input.fighters["b"].passive = "Berserker"
  /\ draws.b.base = ATTACK_MAX /\ draws.b.crit
  /\ result.resultB.damage = 23

\* The tile one step beyond to, seen from from; it may lie off the grid.
Beyond(from, to) == [x |-> 2 * to.x - from.x, z |-> 2 * to.z - from.z]

\* C19: after a melee attack of y that landed on x, with both on the tiles
\* where the attack phase found them and t the tile directly behind x seen
\* from y: t is not the tile of y; if t is off the grid x stays, takes no
\* extra damage and no knockback is reported; if t is a wall x stays and
\* loses 5 hp more; if t is lava x stands on t and loses 10 hp more;
\* otherwise x stands on t and loses the damage of the hit only.  Hp stops at
\* 0 and is compared in rounds without a shrink.
C19_Knockback ==
  [][\A mid \in {Mid} : \A y \in Fid :
       ActionOf(result', y).type = "attack" /\ "attack" \in TurnOf(result', y).narr
         => \A py \in {mid.fighters[y].position},
               px \in {mid.fighters[Other(y)].position} :
              \A t \in {Beyond(py, px)} :
                LET after == state'.fighters[Other(y)]
                    turnY == TurnOf(result', y)
                    hit == mid.fighters[Other(y)].hp - turnY.damage
                    noShrink == state'.shrinkLevel = state.shrinkLevel
                IN /\ isAdjacent(py, px)
                   /\ t # py
                   /\ distance(px, t) = 1 /\ distance(py, t) = 2
                   /\ CASE t \notin Pos ->
                             /\ after.position = px /\ ~turnY.knockback
                             /\ noShrink => after.hp = Max(0, hit)
                        [] t \in Pos /\ isWall(mid.terrain, t) ->
                             /\ after.position = px /\ turnY.knockback
                             /\ noShrink
                                  => after.hp = Max(0, hit - WALL_KNOCKBACK_DAMAGE)
                        [] t \in Pos /\ isLava(mid.terrain, t) ->
                             /\ after.position = t /\ turnY.knockback
                             /\ noShrink => after.hp = Max(0, hit - LAVA_DAMAGE)
                        [] OTHER ->
                             /\ after.position = t /\ turnY.knockback
                             /\ noShrink => after.hp = Max(0, hit)]_vars

\* b, hit by a melee attack of a from the west with a wall behind it, stands
\* where it stood and lost the damage of the hit and 5 more.
C19_Witness ==
  /\ result.resultA.action.type = "attack"
  /\ "wall" \in result.resultA.narr
  /\ result.resultA.knockback
  /\ result.resultB.action.type = "charge"
  /\ state.fighters["b"].position = input.fighters["b"].position
  /\ isWall(input.terrain, Beyond(input.fighters["a"].position,
                                  input.fighters["b"].position))
  /\ state.fighters["b"].hp > 0
  /\ input.fighters["b"].hp - state.fighters["b"].hp
       = result.resultA.damage + WALL_KNOCKBACK_DAMAGE

\* C20: when y attacks or fires a special with its cooldown run out and the
\* opponent x moves or dashes in the same round, the attack is resolved
\* against the tile x moved to: a melee attack reaches x (lands or is dodged)
\* if that tile is adjacent to y and misses with no damage if it is not; a
\* special reaches x if that tile is within 3 tiles with a clear line of
\* sight and is out of range with no damage if it is further away; and x
\* stands on that tile after the round unless the hit knocked it back.
C20_MovementBeforeAttacks ==
  [][\A y \in Fid :
       isAttack(ActionOf(result', y))
         /\ ActionOf(result', Other(y)).type \in {"move", "dash"}
         => \A from \in {state.fighters[y].position},
               to \in {Destination(state, Other(y), ActionOf(result', Other(y)))} :
              LET turnY == TurnOf(result', y)
                  type == ActionOf(result', y).type
              IN /\ type = "attack" /\ isAdjacent(from, to)
                      => turnY.narr \cap {"attack", "dodge"} # {}
                 /\ type = "attack" /\ ~isAdjacent(from, to)
                      => turnY.narr = {"miss"} /\ turnY.damage = 0
                 /\ type = "special" /\ state.fighters[y].specialCooldown <= 1
                      => /\ distance(from, to) <= SPECIAL_RANGE
                              /\ ~WallOnPath(state.terrain, from, to)
                              => turnY.narr \cap {"special", "dodge"} # {}
                         /\ distance(from, to) > SPECIAL_RANGE
                              => turnY.narr = {"outOfRange"} /\ turnY.damage = 0
                 /\ state'.fighters[y].position = from
                 /\ ~turnY.knockback => state'.fighters[Other(y)].position = to]_vars

\* a, two tiles from b, moved next to it and b's attack of the same round
\* landed on it.
C20_Witness ==
  /\ result.resultA.action.type = "move"
  /\ "moves" \in result.resultA.narr
  /\ distance(input.fighters["a"].position, input.fighters["b"].position) = 2
  /\ result.resultB.action.type = "attack"
  /\ "attack" \in result.resultB.narr
  /\ result.resultB.damage > 0
  /\ state.fighters["a"].hp < input.fighters["a"].hp

\* An attack of the given type, with the special's cooldown as stored before
\* the round, passes its checks from tile from against tile to.
Connects(type, cooldown, terrain, from, to) ==
  \/ type = "attack" /\ isAdjacent(from, to)
  \/ /\ type = "special" /\ cooldown <= 1
     /\ distance(from, to) <= SPECIAL_RANGE
     /\ ~WallOnPath(terrain, from, to)

\* The hp a knockback reported with these narration tags takes on top of the
\* damage of the hit.
KnockDamage(narr) ==
  IF "wall" \in narr THEN WALL_KNOCKBACK_DAMAGE
  ELSE IF "lava" \in narr THEN LAVA_DAMAGE ELSE 0

C22_TerrainOnlyGainsLava ==
  [][\/ state'.terrain = state.terrain
     \/ /\ Len(state'.terrain) = GRID_SIZE
        /\ \A z \in 1 .. GRID_SIZE : Len(state'.terrain[z]) = GRID_SIZE
        /\ \A z \in 1 .. GRID_SIZE, x \in 1 .. GRID_SIZE :
             LET old == state.terrain[z][x]
                 new == state'.terrain[z][x]
             IN /\ new \in {"empty", "wall", "lava"}
                /\ (old = "wall") <=> (new = "wall")
                /\ old = "lava" => new = "lava"
                /\ old = "empty" /\ new # "empty"
                     => new = "lava" /\ state'.shrinkLevel > state.shrinkLevel]_vars

\* The round that took the arena to shrink level 1: the wall on the outer
\* ring at (0, 3) still stands, the empty tile next to it at (0, 4) is lava
\* now, the lava at (4, 3) is lava still and the middle of the arena is empty.
C22_Witness ==
  /\ result.round # 0
  /\ input.shrinkLevel = 0 /\ state.shrinkLevel = 1
  /\ Tile(input.terrain, P(0, 3)) = "wall" /\ Tile(state.terrain, P(0, 3)) = "wall"
  /\ Tile(input.terrain, P(0, 4)) = "empty" /\ Tile(state.terrain, P(0, 4)) = "lava"
  /\ Tile(input.terrain, P(4, 3)) = "lava" /\ Tile(state.terrain, P(4, 3)) = "lava"
  /\ Tile(input.terrain, P(4, 4)) = "empty" /\ Tile(state.terrain, P(4, 4)) = "empty"

\* The round counter after the call calls for a shrink of the arena.
ShrinkDue ==
  /\ state'.round \div SHRINK_INTERVAL > state.shrinkLevel
  /\ state'.round \div SHRINK_INTERVAL <= MAX_SHRINK_LEVEL

\* C23: in every state of a battle shrinkLevel is min(4, floor(round / 10));
\* a call shrinks the arena (raises shrinkLevel to floor(round / 10) and
\* turns the rings to lava) exactly when floor(round / 10) after the
\* increment exceeds the stored level and is at most 4; in such a call a
\* fighter that stands on lava after the conversion ends 10 hp (down to 0)
\* below what the movement phase left it with and any other fighter keeps
\* its hp; in a call without a shrink both keep the hp the movement phase
\* left them with, on lava or not.  (No fighter of the long battle attacks.)
C23_ShrinkSchedule ==
  /\ [](state.shrinkLevel = Min(MAX_SHRINK_LEVEL, state.round \div SHRINK_INTERVAL))
  /\ [][\A mid \in {Mid} :
          /\ state'.round = state.round + 1
          /\ ShrinkDue
               => /\ state'.shrinkLevel = state'.round \div SHRINK_INTERVAL
                  /\ state'.terrain # state.terrain
                  /\ \A i \in Fid :
                       state'.fighters[i].hp =
                         IF isLava(state'.terrain, state'.fighters[i].position)
                           THEN Max(0, mid.fighters[i].hp - LAVA_DAMAGE)
                           ELSE mid.fighters[i].hp
          /\ ~ShrinkDue
               => /\ state'.shrinkLevel = state.shrinkLevel
                  /\ state'.terrain = state.terrain
                  /\ \A i \in Fid : state'.fighters[i].hp = mid.fighters[i].hp]_vars

\* Round 20 took the arena to level 2: b, defending on its tile of ring 1,
\* empty until then, lost 10 hp there; a, in the middle, lost none.
C23_Witness ==
  /\ state.round = 2 * SHRINK_INTERVAL
  /\ input.shrinkLevel = 1 /\ state.shrinkLevel = 2
  /\ result.resultB.action.type = "defend"
  /\ state.fighters["b"].position = P(8, 5)
  /\ Tile(input.terrain, P(8, 5)) = "empty"
  /\ isLava(state.terrain, P(8, 5))
  /\ state.fighters["b"].hp = input.fighters["b"].hp - LAVA_DAMAGE
  /\ ~isLava(state.terrain, state.fighters["a"].position)
  /\ state.fighters["a"].hp = input.fighters["a"].hp

\* Fighter i arrives on a tile in the movement phase of the step: it moves or
\* dashes and the two destinations do not collide.
Arrives(i) ==
  /\ ActionOf(result', i).type \in {"move", "dash"}
  /\ ~(/\ ActionOf(result', Other(i)).type \in {"move", "dash"}
       /\ Destination(state, "a", ActionOf(result', "a"))
            = Destination(state, "b", ActionOf(result', "b")))

\* The power-ups of the board that no arriving fighter stands on, in their
\* order.
Kept ==
  SelectSeq(state.powerUps,
            LAMBDA pu : \A i \in Fid :
              Arrives(i) => Destination(state, i, ActionOf(result', i)) # pu.position)

\* C24: no two power-ups of the board share a tile; and over every
\* applyRound call, the board after the call is the board before it without
\* the power-ups on tiles a fighter arrived on, followed by at most one new
\* power-up, which is there only if the round counter after the call is a
\* multiple of 4, has one of the three types and lies in the 8 x 8 interior
\* on a tile that is empty terrain after the call, under neither fighter and
\* under no power-up that was kept.
C24_PowerUps ==
  /\ [](\A j, k \in 1 .. Len(state.powerUps) :
          j # k => state.powerUps[j].position # state.powerUps[k].position)
  /\ [][\A kept \in {Kept} :
          IF Len(state'.powerUps) = Len(kept) + 1
            THEN \E pu \in {state'.powerUps[Len(state'.powerUps)]} :
                   /\ state'.powerUps = Append(kept, pu)
                   /\ state'.round % POWERUP_SPAWN_INTERVAL = 0
                   /\ pu.type \in PowerUpTypes
                   /\ pu.position.x \in 1 .. GRID_SIZE - 2
                   /\ pu.position.z \in 1 .. GRID_SIZE - 2
                   /\ Tile(state'.terrain, pu.position) = "empty"
                   /\ \A i \in Fid : state'.fighters[i].position # pu.position
                   /\ \A k \in 1 .. Len(kept) : kept[k].position # pu.position
            ELSE state'.powerUps = kept]_vars

\* Round 7 of a battle with three power-ups on the board: a stepped onto the
\* heal at (6, 4), which left the board, and at the end of the round a new
\* power-up appeared on the free tile (3, 5).
C24_Witness ==
  /\ result.round = 7
  /\ result.resultA.action = Action("move", "north")
  /\ "pickup" \in result.resultA.narr
  /\ Len(input.powerUps) = 3
  /\ input.powerUps[1].position = P(6, 4)
  /\ state.fighters["a"].position = P(6, 4)
  /\ Len(state.powerUps) = 3
  /\ state.powerUps[1] = input.powerUps[2]
  /\ state.powerUps[2] = input.powerUps[3]
  /\ state.powerUps[3].position = P(3, 5)
  /\ draws.spawn = state.powerUps[3]

\* The length of fighter i's run of one action type once the step's action
\* is added to it.
RunLength(i) ==
  IF state.fighters[i].lastActionType = ActionOf(result', i).type
    THEN state.fighters[i].consecutiveCount + 1 ELSE 1

\* C25: after every applyRound call each fighter's lastActionType is the
\* type of the action it took and its consecutiveCount is the run of that
\* type continued (one more than before if the type is the one remembered,
\* 1 if not), for every action type and whatever the outcome of the action;
\* and a hit that lands deals the damage of the steps with the multiplier
\* 0.7 if that run is 3 or longer and 1 if it is shorter.
C25_ComboRun ==
  [][\A i \in Fid :
       /\ state'.fighters[i].lastActionType = ActionOf(result', i).type
       /\ state'.fighters[i].consecutiveCount = RunLength(i)
       /\ Lands(i)
            => \A mid \in {Mid} :
                 TurnOf(result', i).damage =
                   Defended(Offense(RollsOf(draws', i).base, RunLength(i),
                                    state.fighters[i].chargeActive,
                                    state.fighters[i].powerUpEffects.damageBoost,
                                    state.fighters[i].passive,
                                    RollsOf(draws', i).crit, RollsOf(draws', i).unp),
                            mid.fighters[Other(i)].powerUpEffects.shieldActive,
                            ActionOf(result', Other(i)).type = "defend",
                            mid.fighters[Other(i)].passive)]_vars

\* A charged Berserker with a damage boost attacked for the third round in a
\* row, base 15, no crit, an opponent without defences: 10, 15, 25 (without
\* the decay 15, 22, 32); the opponent charged for the first time.
C25_Witness ==
  /\ result.resultA.action.type = "attack"
  /\ input.fighters["a"].lastActionType = "attack"
  /\ input.fighters["a"].consecutiveCount = 2
  /\ state.fighters["a"].consecutiveCount = COMBO_DECAY_THRESHOLD
  /\ input.fighters["a"].passive = "Berserker"
  /\ draws.a.base = ATTACK_MIN /\ ~draws.a.crit
  /\ result.resultA.damage = 25
  /\ result.resultB.action.type = "charge"
  /\ input.fighters["b"].passive = "None"
  /\ input.fighters["b"].lastActionType = "move"
  /\ state.fighters["b"].lastActionType = "charge"
  /\ state.fighters["b"].consecutiveCount = 1

\* C26: whenever a fighter issues dash in a call in which its dashCooldown,
\* counted down at the start of the round, is 0 (stored 0 or 1), its
\* dashCooldown is 3 after the call: also when a wall, the grid edge or the
\* opponent's tile stopped the dash, and also when both destinations were
\* the same tile and both fighters stayed.
C26_DashUsed ==
  [][\A i \in Fid :
       ActionOf(result', i).type = "dash" /\ state.fighters[i].dashCooldown <= 1
         => state'.fighters[i].dashCooldown = DASH_COOLDOWN]_vars

\* ------------------------------------------------------- generateTerrain

\* No GameState yet (no GameState has round 0).
NoState == [round |-> 0]

\* The grid generateTerrain starts from.
EmptyTerrain == [z \in 1 .. GRID_SIZE |-> [x \in 1 .. GRID_SIZE |-> "empty"]]

\* terrain[z][x] = tile.
SetTile(terrain, p, tile) == [terrain EXCEPT ![p.z + 1][p.x + 1] = tile]

\* The cells the draws x, z = randInt(0, GRID_SIZE - 1) of the two loops are
\* taken from: the two start tiles and two more tiles of the spawn safe
\* zones, and eleven tiles outside them.
TerrainDraws ==
  {P(2, 5), P(7, 5), P(1, 4), P(8, 6),
   P(0, 0), P(9, 9), P(0, 5), P(4, 5), P(5, 5), P(9, 4),
   P(3, 3), P(6, 7), P(2, 7), P(7, 3), P(5, 0)}

\* One turn of a placement loop that draws cell: the grid after it, and
\* whether a tile was placed.
Place(terrain, cell, tile) ==
  IF InSpawnSafeZone(cell.x, cell.z) THEN [terrain |-> terrain, placed |-> FALSE]
  ELSE IF Tile(terrain, cell) = "empty"
    THEN [terrain |-> SetTile(terrain, cell, tile), placed |-> TRUE]
    ELSE [terrain |-> terrain, placed |-> FALSE]

\* createInitialState is called from the selection screen and calls
\* generateTerrain, which has drawn wallCount = randInt(5, 8).
InitTerrain ==
  /\ state = NoState /\ input = NoState
  /\ result = NoResult /\ draws = NoDraws
  /\ turn = NoTurn /\ pc = "idle" /\ phase = "selecting"
  /\ aborted = FALSE /\ requests = 0
  /\ session = NoSession
  /\ \E wallCount \in 5 .. 8 :
       gen = [pc |-> "walls", terrain |-> EmptyTerrain, wallCount |-> wallCount,
              lavaCount |-> 0, placed |-> 0]

\* One turn of the loop while (placed < wallCount).
PlaceWall ==
  /\ gen.pc = "walls" /\ gen.placed < gen.wallCount
  /\ \E cell \in TerrainDraws :
       \E out \in {Place(gen.terrain, cell, "wall")} :
         gen' = [gen EXCEPT !.terrain = out.terrain,
                            !.placed = IF out.placed THEN gen.placed + 1 ELSE gen.placed]
  /\ UNCHANGED <<state, result, draws, input, page, session>>

\* The wall loop is left: lavaCount = randInt(2, 3), placed = 0.
DrawLavaCount ==
  /\ gen.pc = "walls" /\ ~(gen.placed < gen.wallCount)
  /\ \E lavaCount \in 2 .. 3 :
       gen' = [gen EXCEPT !.pc = "lava", !.lavaCount = lavaCount, !.placed = 0]
  /\ UNCHANGED <<state, result, draws, input, page, session>>

\* One turn of the loop while (placed < lavaCount).
PlaceLava ==
  /\ gen.pc = "lava" /\ gen.placed < gen.lavaCount
  /\ \E cell \in TerrainDraws :
       \E out \in {Place(gen.terrain, cell, "lava")} :
         gen' = [gen EXCEPT !.terrain = out.terrain,
                            !.placed = IF out.placed THEN gen.placed + 1 ELSE gen.placed]
  /\ UNCHANGED <<state, result, draws, input, page, session>>

\* The lava loop is left: generateTerrain returns the grid and
\* createInitialState returns the GameState with it.
ReturnTerrain ==
  /\ gen.pc = "lava" /\ ~(gen.placed < gen.lavaCount)
  /\ gen' = [gen EXCEPT !.pc = "done"]
  /\ \E pp \in PassivePairs :
       state' = createInitialState(pp[1], pp[2], gen.terrain)
  /\ UNCHANGED <<result, draws, input, page, session>>

NextTerrain == PlaceWall \/ DrawLavaCount \/ PlaceLava \/ ReturnTerrain

\* Math.random() does not avoid the free cells for ever: a turn of a loop
\* that places a tile is taken in the end.
SpecTerrain ==
  InitTerrain /\ [][NextTerrain]_vars
    /\ WF_vars(PlaceWall) /\ WF_vars(DrawLavaCount)
    /\ WF_vars(PlaceLava) /\ WF_vars(ReturnTerrain)

\* The tiles of the two spawn safe zones.
SafeZoneTiles ==
  {p \in Pos : p.z \in 4 .. 6 /\ (p.x \in 1 .. 3 \/ p.x \in 6 .. 8)}

TilesOf(terrain, tile) == {p \in Pos : Tile(terrain, p) = tile}

\* C27: while generateTerrain runs and after it no tile of the two spawn
\* safe zones is anything but empty, and as long as a loop has tiles to
\* place there is an empty tile outside the safe zones for it; the grid it
\* returns, which is the terrain of the initial state, has 5 to 8 walls,
\* 2 to 3 lava tiles and every other tile empty, and the fighters start on
\* (2, 5) and (7, 5), both empty; and generateTerrain returns.
C27_GeneratedTerrain ==
  /\ [](\A p \in SafeZoneTiles : Tile(gen.terrain, p) = "empty")
  /\ [](gen.pc \in {"walls", "lava"}
          => \E p \in Pos \ SafeZoneTiles : Tile(gen.terrain, p) = "empty")
  /\ [](gen.pc = "done"
          => /\ state.terrain = gen.terrain
             /\ Cardinality(TilesOf(state.terrain, "wall")) \in 5 .. 8
             /\ Cardinality(TilesOf(state.terrain, "lava")) \in 2 .. 3
             /\ \A p \in Pos : Tile(state.terrain, p) \in {"empty", "wall", "lava"}
             /\ state.fighters["a"].position = P(2, 5)
             /\ state.fighters["b"].position = P(7, 5)
             /\ \A i \in Fid : Tile(state.terrain, state.fighters[i].position) = "empty")
  /\ <>(gen.pc = "done")

\* generateTerrain returned a grid with 8 walls and 3 lava tiles, after draws
\* that hit the safe zones and taken cells were rejected.
C27_Witness ==
  /\ gen.pc = "done"
  /\ gen.wallCount = 8 /\ gen.lavaCount = 3
  /\ Cardinality(TilesOf(state.terrain, "wall")) = 8
  /\ Cardinality(TilesOf(state.terrain, "lava")) = 3
  /\ Tile(state.terrain, P(4, 5)) = "wall"
  /\ Tile(state.terrain, P(5, 5)) = "lava"
  /\ state.round = 1

\* C28: in every state applyRound returns, a fighter with hp <= 0 means a
\* winner: draw if both fighters are at 0, the other fighter if one is; so
\* no state without a winner has a fighter at 0, whatever took the hp.
C28_DeadMeansWinner ==
  result.round # 0
    => /\ (\A i \in Fid : state.fighters[i].hp <= 0) => state.winner = "draw"
       /\ \A i \in Fid :
            state.fighters[i].hp <= 0 /\ state.fighters[Other(i)].hp > 0
              => state.winner = Other(i)
       /\ state.winner = NULL => \A i \in Fid : state.fighters[i].hp > 0

\* C29: in every state the two fighters stand on different tiles and neither
\* stands on a wall.
C29_ApartAndOffWalls ==
  /\ state.fighters["a"].position # state.fighters["b"].position
  /\ \A i \in Fid : ~isWall(state.terrain, state.fighters[i].position)

\* a dashed east from (6, 6) at b, who stood two tiles away and defended: the
\* dash ended on (7, 6), in front of b.
C29_Witness ==
  /\ result.resultA.action = Action("dash", "east")
  /\ result.resultB.action.type = "defend"
  /\ input.fighters["a"].position = P(6, 6)
  /\ input.fighters["b"].position = P(8, 6)
  /\ state.fighters["a"].position = P(7, 6)
  /\ state.fighters["b"].position = P(8, 6)

\* --------------------------------------------- the arena page and its loops

\* The number of battles the user starts on the page.
MaxBattles == 2

Battles == 1 .. MaxBattles

\* A runBattle call that has not been made.
NoBattle == [pc |-> "none", aborted |-> FALSE, state |-> NoState]

\* The page after its first render: phase selecting, gameState null,
\* abortRef.current null (0), no runBattle call made.
InitPage ==
  /\ state = NoState /\ input = NoState
  /\ result = NoResult /\ draws = NoDraws
  /\ turn = NoTurn /\ pc = "idle"
  /\ aborted = FALSE /\ requests = 0
  /\ gen = GenIdle
  /\ phase = "selecting"
  /\ session = [pc |-> "mounted", gameState |-> NoState, abortRef |-> 0,
                battles |-> [k \in Battles |-> NoBattle]]

\* The state the turn endpoint answers for a posted state: the round
\* applied, both models defending.
TurnResponse(s) ==
  applyRound(s, Action("defend", NoDir), Action("defend", NoDir),
             NoRolls, NoRolls, NoSpawn).state

\* The Start Battle button, which the selecting phase renders: setGameState,
\* setPhase("fighting") and the synchronous part of runBattle, up to its
\* first await: abortRef.current is the new controller, and the state is
\* posted if the test of the loop passes, as it does for a new battle
\* (otherwise setPhase("complete") follows at once).
startBattle ==
  /\ phase = "selecting"
  /\ \E k \in Battles :
       /\ session.battles[k].pc = "none"
       /\ \A j \in Battles : j < k => session.battles[j].pc # "none"
       /\ \E initial \in {createInitialState("None", "None", TerrainOf(WallsOpen, LavaOpen))} :
            /\ session' = [session EXCEPT
                             !.gameState = initial,
                             !.abortRef = k,
                             !.battles[k] = [pc |-> IF LoopTest(initial, FALSE)
                                                      THEN "fetch" ELSE "done",
                                             aborted |-> FALSE, state |-> initial]]
            /\ phase' = IF LoopTest(initial, FALSE) THEN "fighting" ELSE "complete"
  /\ UNCHANGED <<state, result, draws, input, turn, pc, aborted, requests, gen>>

\* The Back and Play Again buttons, which the fighting / complete phase
\* renders (the render reads gameState!.fighters): the controller in abortRef
\* is aborted, phase is selecting and gameState null.
resetPage ==
  /\ phase # "selecting"
  /\ session.gameState # NoState
  /\ session' = [session EXCEPT
                   !.gameState = NoState,
                   !.battles = [k \in Battles |->
                                  IF k = session.abortRef
                                    THEN [session.battles[k] EXCEPT !.aborted = TRUE]
                                    ELSE session.battles[k]]]
  /\ phase' = "selecting"
  /\ UNCHANGED <<state, result, draws, input, turn, pc, aborted, requests, gen>>

\* fetch and res.json() of battle k are fulfilled with res.ok, which they are
\* only while the signal is not aborted: setGameState(newState),
\* state = newState, and the loop waits for the animation.
BattleReceives(k) ==
  /\ session.battles[k].pc = "fetch"
  /\ ~session.battles[k].aborted
  /\ \E newState \in {TurnResponse(session.battles[k].state)} :
       session' = [session EXCEPT !.gameState = newState,
                                  !.battles[k].state = newState,
                                  !.battles[k].pc = "animation"]
  /\ UNCHANGED <<state, result, draws, input, turn, pc, phase, aborted, requests, gen>>

\* The answer of battle k is not ok (break), or fetch or res.json() throws,
\* with an AbortError once the signal is aborted (break): the loop is left,
\* setThinking(false), setPhase("complete").
BattleBreaks(k) ==
  /\ session.battles[k].pc = "fetch"
  /\ session' = [session EXCEPT !.battles[k].pc = "done"]
  /\ phase' = "complete"
  /\ UNCHANGED <<state, result, draws, input, turn, pc, aborted, requests, gen>>

\* waitForAnimation of battle k is resolved, by handleAnimationDone or by its
\* 3 s timer, and the loop waits 500 ms.
BattleAnimationDone(k) ==
  /\ session.battles[k].pc = "animation"
  /\ session' = [session EXCEPT !.battles[k].pc = "pause"]
  /\ UNCHANGED <<state, result, draws, input, turn, pc, phase, aborted, requests, gen>>

\* The 500 ms are over and the test of the loop passes: the state is posted.
BattleLoops(k) ==
  /\ session.battles[k].pc = "pause"
  /\ LoopTest(session.battles[k].state, session.battles[k].aborted)
  /\ session' = [session EXCEPT !.battles[k].pc = "fetch"]
  /\ UNCHANGED <<state, result, draws, input, turn, pc, phase, aborted, requests, gen>>

\* The 500 ms are over and the test of the loop fails (a winner, the round
\* limit, or the signal aborted): setThinking(false), setPhase("complete").
BattleExits(k) ==
  /\ session.battles[k].pc = "pause"
  /\ ~LoopTest(session.battles[k].state, session.battles[k].aborted)
  /\ session' = [session EXCEPT !.battles[k].pc = "done"]
  /\ phase' = "complete"
  /\ UNCHANGED <<state, result, draws, input, turn, pc, aborted, requests, gen>>

NextPage ==
  \/ startBattle
  \/ resetPage
  \/ \E k \in Battles :
       \/ BattleReceives(k)
       \/ BattleBreaks(k)
       \/ BattleAnimationDone(k)
       \/ BattleLoops(k)
       \/ BattleExits(k)

\* The page, the user on its buttons and the runBattle calls, interleaved at
\* the awaits.
SpecPage == InitPage /\ [][NextPage]_vars

\* C30: on the arena page gameState is not null whenever phase is fighting
\* or complete, and a runBattle call whose controller reset has aborted
\* changes neither phase nor gameState in any of its steps.
C30_OneLoopWritesSession ==
  /\ [](phase \in {"fighting", "complete"} => session.gameState # NoState)
  /\ [][\A k \in Battles :
          (session.battles[k].aborted /\ session'.battles[k] # session.battles[k])
            => phase' = phase /\ session'.gameState = session.gameState]_vars

====
